---- MODULE Spec2Model ----
(***************************************************************************)
(* A model of the gilrs facade (src/src/gamepad.rs): the event translation *)
(* pipeline of Gilrs::next_event, the cached state written by              *)
(* Gilrs::update, and the messages the facade sends to the force-feedback  *)
(* scheduler.                                                              *)
(*                                                                         *)
(* f32 values are kept as integers in hundredths (1.0 is 100); the axis    *)
(* ranges below are chosen so that every normalised sample is an exact     *)
(* number of hundredths.                                                   *)
(***************************************************************************)
EXTENDS Integers, Sequences, FiniteSets, TLC

\* ------------------------------------------------------------- bounds
\* Gamepad ids the backend hands out: 0 .. MaxGamepads - 1.
MaxGamepads == 2
\* Raw events the backend delivers during one run.
MaxRawEvents == 3
\* Calls of inc(), insert_event() and update() the caller makes during one run.
MaxCalls == 2
\* Raw events the backend delivers during one run in which the caller also
\* counts, inserts events and updates the state.
MaxCallerRaw == 1
\* Calls of inc() between two resets of the counter, enough to wrap it.
MaxIncs == 4
\* Raw events the backend delivers during one run in which the caller updates
\* the state itself.
MaxStateRaw == 2

\* ------------------------------------------------------------- values
\* 1.0f32 in hundredths.
One == 100
None == [none |-> TRUE]
NoCode == "no_code"

\* GilrsBuilder::new: the default thresholds 0.75 and 0.65.
axis_to_btn_pressed == 75
axis_to_btn_released == 65

\* f32::NAN, a value outside the hundredths the model computes with; every
\* comparison of f32 with it is false.
NaN == 0 - 1000
f_lt(a, b) == a # NaN /\ b # NaN /\ a < b
f_le(a, b) == a # NaN /\ b # NaN /\ a <= b
f_gt(a, b) == a # NaN /\ b # NaN /\ a > b
f_ge(a, b) == a # NaN /\ b # NaN /\ a >= b

Min(a, b) == IF a < b THEN a ELSE b
Max(a, b) == IF a < b THEN b ELSE a
Abs(a) == IF a < 0 THEN 0 - a ELSE a
\* utils::clamp
clamp(x, lo, hi) == Max(lo, Min(hi, x))

\* ------------------------------------------------------------- devices
\* Codes of the devices of the model: two button codes and two axis codes.
ButtonCodes == {"B1", "B2"}
AxisCodes == {"A1", "A2"}
Codes == ButtonCodes \cup AxisCodes

\* gilrs_core::AxisInfo of every axis of the model's devices.
AxisInfoOf(code) == [min |-> 0, max |-> 20, deadzone |-> 2]

\* Raw samples the backend reports for an axis: A1 is a trigger sampled at and
\* between the two thresholds (13/20 = 0.65, 15/20 = 0.75), A2 a stick sampled
\* inside its deadzone and at its upper end.
RawSamples(code) == IF code = "A1" THEN {13, 14, 15} ELSE {11, 20}

\* The device descriptors the backend knows: a model with an entry in the
\* mapping database and force feedback, one with neither, and one whose entry
\* in the database does not parse.
DeviceModels ==
    {[uuid |-> "U1", ff |-> TRUE], [uuid |-> "U2", ff |-> FALSE],
     [uuid |-> "U3", ff |-> FALSE]}

\* The third model has 8-bit axes: its AxisInfo; the raw samples the backend
\* reports for them are one near the lower end and one in the upper half.
WideAxisInfo == [min |-> 0, max |-> 255, deadzone |-> 8]

\* gilrs_core::Gamepad::axis_info of a device, and the samples of its axes
axis_info(model, nec) == IF model.uuid = "U3" THEN WideAxisInfo ELSE AxisInfoOf(nec)
RawSamplesOf(model, nec) == IF model.uuid = "U3" THEN {4, 200} ELSE RawSamples(nec)

\* AxisInfo::deadzone(): deadzone / range * 2.
AxisInfo_deadzone(info) ==
    LET range == info.max - info.min
    IN IF range = 0 THEN 0 ELSE (info.deadzone * One * 2) \div range

\* ------------------------------------------------------------- mapping
Btn(b) == [kind |-> "Btn", elem |-> b]
Axis(a) == [kind |-> "Axis", elem |-> a]
Unmapped == [kind |-> "None", elem |-> "Unknown"]

\* The mapping an SDL entry of the database resolves to for uuid U1.
SdlTable == [c \in Codes |->
    CASE c = "B1" -> Btn("South")
      [] c = "B2" -> Axis("LeftZ")
      [] c = "A1" -> Btn("LeftTrigger2")
      [] c = "A2" -> Axis("LeftStickX")]

\* Mapping::default(): covers no code.
DefaultMapping == [default |-> TRUE, name |-> "", table |-> [c \in Codes |-> Unmapped]]

\* MappingDb::get: the SDL entry of uuid, None when the database has none
db_get(uuid) ==
    CASE uuid = "U1" -> [sdl |-> "Pad One", valid |-> TRUE]
      [] uuid = "U3" -> [sdl |-> "Pad Three", valid |-> FALSE]
      [] OTHER -> None

\* Mapping::parse_sdl_mapping: the mapping of an entry, or an error
parse_sdl_mapping(entry) ==
    IF entry.valid
    THEN [ok |-> TRUE,
          mapping |-> [default |-> FALSE, name |-> entry.sdl, table |-> SdlTable]]
    ELSE [ok |-> FALSE]

\* db.get(uuid).and_then(|s| Mapping::parse_sdl_mapping(s, ..).ok())
db_lookup(uuid) ==
    LET entry == db_get(uuid)
    IN IF entry = None THEN None
       ELSE IF parse_sdl_mapping(entry).ok THEN parse_sdl_mapping(entry).mapping
       ELSE None

\* Mapping::map
map(mapping, code) == IF code \in Codes THEN mapping.table[code] ELSE Unmapped

\* ------------------------------------------------------------- events
EventType(type, elem, value, code) ==
    [type |-> type, elem |-> elem, value |-> value, code |-> code]
ButtonPressed(b, c) == EventType("ButtonPressed", b, 0, c)
ButtonReleased(b, c) == EventType("ButtonReleased", b, 0, c)
ButtonRepeated(b, c) == EventType("ButtonRepeated", b, 0, c)
ButtonChanged(b, v, c) == EventType("ButtonChanged", b, v, c)
AxisChanged(a, v, c) == EventType("AxisChanged", a, v, c)
Connected == EventType("Connected", "-", 0, NoCode)
Disconnected == EventType("Disconnected", "-", 0, NoCode)
Dropped == EventType("Dropped", "-", 0, NoCode)

Event(id, event, time) == [id |-> id, event |-> event, time |-> time]
\* Event::drop and Event::is_dropped
drop(ev) == Event(ev.id, Dropped, ev.time)
is_dropped(ev) == ev.event.type = "Dropped"

\* gilrs_core::Event
RawEvent(id, type, val, code, time) ==
    [id |-> id, type |-> type, val |-> val, code |-> code, time |-> time]

\* ------------------------------------------------------------- cached state
NoData == [absent |-> TRUE]
\* GamepadState::new
GamepadState_new ==
    [buttons |-> [c \in Codes |-> NoData], axes |-> [c \in Codes |-> NoData]]

ButtonData_new(value, pressed, counter, time) ==
    [is_pressed |-> pressed, value |-> value, counter |-> counter, timestamp |-> time]
AxisData_new(value, counter, time) ==
    [value |-> value, counter |-> counter, timestamp |-> time]

\* GamepadState::is_pressed, value, button_data, axis_data
state_is_pressed(st, nec) ==
    nec \in Codes /\ st.buttons[nec] # NoData /\ st.buttons[nec].is_pressed
state_value(st, nec) ==
    IF nec \in Codes /\ st.axes[nec] # NoData THEN st.axes[nec].value ELSE 0
state_button_data(st, nec) == IF nec \in Codes THEN st.buttons[nec] ELSE NoData
state_axis_data(st, nec) == IF nec \in Codes THEN st.axes[nec] ELSE NoData

\* GamepadState::set_btn_pressed
set_btn_pressed(st, nec, pressed, counter, time) ==
    IF nec \notin Codes THEN st
    ELSE IF st.buttons[nec] = NoData
    THEN [st EXCEPT !.buttons[nec] =
            ButtonData_new(IF pressed THEN One ELSE 0, pressed, counter, time)]
    ELSE [st EXCEPT !.buttons[nec].is_pressed = pressed,
                    !.buttons[nec].counter = counter,
                    !.buttons[nec].timestamp = time]

\* GamepadState::set_btn_repeating
set_btn_repeating(st, nec, counter, time) ==
    IF nec \notin Codes THEN st
    ELSE IF st.buttons[nec] = NoData
    THEN [st EXCEPT !.buttons[nec] = ButtonData_new(0, FALSE, counter, time)]
    ELSE [st EXCEPT !.buttons[nec].counter = counter,
                    !.buttons[nec].timestamp = time]

\* GamepadState::set_btn_value
set_btn_value(st, nec, value, counter, time) ==
    IF nec \notin Codes THEN st
    ELSE IF st.buttons[nec] = NoData
    THEN [st EXCEPT !.buttons[nec] = ButtonData_new(value, FALSE, counter, time)]
    ELSE [st EXCEPT !.buttons[nec].value = value,
                    !.buttons[nec].counter = counter,
                    !.buttons[nec].timestamp = time]

\* GamepadState::update_axis
update_axis(st, nec, data) ==
    IF nec \notin Codes THEN st ELSE [st EXCEPT !.axes[nec] = data]

\* ------------------------------------------------------------- normalisation
\* The largest i32, i32::MAX in the code; the model's integers of that type end
\* at a smaller value, so that TLC can multiply them.
IntLast == 32767

\* i32 subtraction: the difference in two's complement, and whether it left
\* the type (a panic with overflow checks, the wrapped value without)
i32_sub(a, b) ==
    [overflow |-> a - b > IntLast \/ a - b < 0 - IntLast - 1,
     value |-> ((a - b + IntLast + 1) % (2 * IntLast + 2)) - IntLast - 1]

\* f32 division of two converted integers, scaled by k hundredths and cut to
\* hundredths: the divisor may be negative, and x / 0 is an infinity (a value
\* beyond both ends of the interval it is clamped to); 0 / 0, which is NaN, is
\* left to the caller
f32_ratio(a, b, k) ==
    IF b > 0 THEN (a * k) \div b
    ELSE IF b < 0 THEN ((0 - a) * k) \div (0 - b)
    ELSE IF a >= 0 THEN 2 * k ELSE 0 - 2 * k

\* Mutant of axis_value: [min, max] onto [0, 1], as for a button
axis_value_unsigned(info, val, axis) ==
    clamp(f32_ratio(i32_sub(val, info.min).value, i32_sub(info.max, info.min).value, One),
          0, One)

\* axis_value: [min, max] onto [-1, 1]; the model's platform has
\* IS_Y_AXIS_REVERSED = true. The two differences are taken in i32.
IS_Y_AXIS_REVERSED == TRUE
axis_value(info, val, axis) ==
    LET range == i32_sub(info.max, info.min).value
        num == i32_sub(val, info.min).value
        v == f32_ratio(num, range, 2 * One) - One
        w == IF IS_Y_AXIS_REVERSED /\ axis \in {"LeftStickY", "RightStickY"}
             THEN 0 - v ELSE v
    IN IF range = 0 /\ num = 0 THEN NaN ELSE clamp(w, 0 - One, One)

\* btn_value: [min, max] onto [0, 1]
btn_value(info, val) ==
    LET range == i32_sub(info.max, info.min).value
        num == i32_sub(val, info.min).value
    IN IF range = 0 /\ num = 0 THEN NaN ELSE clamp(f32_ratio(num, range, One), 0, One)

\* Whether info.max - info.min or val - info.min of axis_value and btn_value
\* overflows
norm_overflows(info, val) ==
    i32_sub(info.max, info.min).overflow \/ i32_sub(val, info.min).overflow

\* ------------------------------------------------------------- state
VARIABLES
    inner,            \* gilrs_core::Gilrs: the backend's gamepads, id i at index i + 1
    rawCount,         \* raw events the backend has delivered so far (its clock)
    gamepads_data,    \* Gilrs::gamepads_data, id i at index i + 1
    events,           \* Gilrs::events, the internal queue
    counter,          \* Gilrs::counter
    default_filters,  \* Gilrs::default_filters
    update_state,     \* Gilrs::update_state
    chan,             \* the messages sent through Gilrs::tx and its clones, in send order
                      \* (a send fails once the receiving thread is gone)
    pc,               \* "idle", or "loop" inside next_event after a dropped event
    ret,              \* what the last completed call of next_event returned
    pulled,           \* the raw event the last iteration of next_event pulled, or NoRaw
    out,              \* what next_event_priv returned in that iteration
    replaced,         \* the slot the last iteration replaced on Connected, or None
    last_pr,          \* history: per id and code, whether the last press or release
                      \* next_event returned since the id connected was a press
    calls,            \* calls of inc, insert_event and update the caller has made
    builder,          \* the GilrsBuilder build() consumes and what the platform answers it
    built,            \* which Result build() gave: "none" before it ran
    thresholds,       \* Gilrs::axis_to_btn_pressed and Gilrs::axis_to_btn_released
    next_id,          \* Gilrs::next_id
    ids_out,          \* history: the ids next_ff_id has returned, in order
    worker,           \* the thread that owns the force feedback devices and receives
                      \* the messages: whether it is alive, how its last
                      \* set_ff_state ended, how many messages it has processed,
                      \* its table of devices and effects, and the commands of
                      \* its last tick
    last_call,        \* the last call of update, of a read or of a force feedback
                      \* operation the caller made, and its result
    incs,             \* history: calls of inc since construction or the last reset
    rewound,          \* history: the counter has wrapped or was reset
    written           \* history: the entries of the cached state written since the
                      \* last inc, as <<id, "buttons" or "axes", code>>

built_vars == <<builder, built, thresholds>>
ff_vars == <<next_id, ids_out, worker, last_call>>
count_vars == <<incs, rewound>>

vars == <<inner, rawCount, gamepads_data, events, counter, default_filters,
          update_state, chan, pc, ret, pulled, out, replaced, last_pr, calls,
          builder, built, thresholds, next_id, ids_out, worker, last_call,
          incs, rewound, written>>

NoRaw == [none |-> TRUE]
Ids == 0 .. (MaxGamepads - 1)

\* Message::Open, Message::Close, Message::SetListenerPosition
Open(id, device) == [type |-> "Open", id |-> id, device |-> device]
Close(id) == [type |-> "Close", id |-> id]
SetListenerPosition(id, position) ==
    [type |-> "SetListenerPosition", id |-> id, position |-> position]

\* ------------------------------------------------------------- backend
\* gilrs_core::Gamepad of id: the descriptor of the device, whether it is
\* connected, and whether ff_device() yields a handle.
BackendGamepad(model, ff_ok) == [model |-> model, connected |-> TRUE, ff_ok |-> ff_ok]
FfOutcomes(model) == IF model.ff THEN BOOLEAN ELSE {FALSE}

\* Gamepad::is_connected, is_ff_supported, ff_device of the backend
is_connected(in, id) == id < Len(in) /\ in[id + 1].connected
is_ff_supported(in, id) == id < Len(in) /\ in[id + 1].model.ff
ff_device(in, id) == IF in[id + 1].ff_ok THEN [handle |-> id] ELSE None
\* Gilrs::last_gamepad_hint of the backend
last_gamepad_hint(in) == Len(in)

\* What gilrs_core::Gilrs::next_event can answer in the current backend state:
\* no event, or one raw event together with the backend's state after it. A new
\* device gets the next free id, a device that comes back keeps its id, and only
\* connected devices report buttons and axes. The backend of an unsupported
\* platform never reports anything.
BackendAnswers ==
    LET t == rawCount + 1
        answer(raw, in) == [raw |-> raw, inner |-> in]
        hotplug == IF Len(inner) < MaxGamepads
                   THEN {answer(RawEvent(Len(inner), "Connected", 0, NoCode, t),
                                Append(inner, BackendGamepad(m, ok)))
                            : <<m, ok>> \in {x \in DeviceModels \X BOOLEAN :
                                              x[2] \in FfOutcomes(x[1])}}
                   ELSE {}
        replug == {answer(RawEvent(i, "Connected", 0, NoCode, t),
                          [inner EXCEPT ![i + 1].connected = TRUE])
                      : i \in {j \in Ids : j < Len(inner) /\ ~inner[j + 1].connected}}
        live == {j \in Ids : j < Len(inner) /\ inner[j + 1].connected}
        unplug == {answer(RawEvent(i, "Disconnected", 0, NoCode, t),
                          [inner EXCEPT ![i + 1].connected = FALSE]) : i \in live}
        buttons == {answer(RawEvent(x[1], x[2], 0, x[3], t), inner)
                       : x \in live \X {"ButtonPressed", "ButtonReleased"} \X ButtonCodes}
        axes == UNION {{answer(RawEvent(x[1], "AxisValueChanged", v, x[2], t), inner)
                           : v \in RawSamplesOf(inner[x[1] + 1].model, x[2])}
                          : x \in live \X AxisCodes}
    IN IF rawCount < MaxRawEvents /\ built = "Ok"
       THEN hotplug \cup replug \cup unplug \cup buttons \cup axes
       ELSE {}

\* ------------------------------------------------------------- slots
\* Mutant of GamepadData_sends: Open is sent without looking at what
\* ff_device() returned
GamepadData_sends_unchecked(in, id) ==
    IF is_ff_supported(in, id) THEN <<Open(id, ff_device(in, id))>> ELSE <<>>

\* Mutant of GamepadData_mapping: a device without a usable entry gets the
\* mapping of a device that has one
GamepadData_mapping_borrowed(in, id) ==
    LET m == db_lookup(in[id + 1].model.uuid)
    IN IF m = None THEN db_lookup("U1") ELSE m

\* GamepadData::new: the mapping resolved from the database or the default one,
\* an empty state; Open is sent when the device supports force feedback and
\* ff_device() yields a handle.
GamepadData_mapping(in, id) ==
    LET m == db_lookup(in[id + 1].model.uuid)
    IN IF m = None THEN DefaultMapping ELSE m

GamepadData_sends(in, id) ==
    IF is_ff_supported(in, id) /\ ff_device(in, id) # None
    THEN <<Open(id, ff_device(in, id))>>
    ELSE <<>>

\* Mutant of GamepadData_state: a replaced slot keeps its cached state
GamepadData_state_kept(old) == IF old = None THEN GamepadState_new ELSE old.state

\* The state of a new slot; old is the slot it replaces, or None
GamepadData_state(old) == GamepadState_new

GamepadData_new(in, id, old) ==
    [state |-> GamepadData_state(old), mapping |-> GamepadData_mapping(in, id), id |-> id]

\* Gamepad::map_name, os_name, name and mapping_source of the handle of id
map_name(slot) == IF slot.mapping.default THEN None ELSE [some |-> slot.mapping.name]
os_name(in, id) ==
    CASE in[id + 1].model.uuid = "U1" -> "Generic Pad 1"
      [] in[id + 1].model.uuid = "U2" -> "Generic Pad 2"
      [] OTHER -> "Generic Pad 3"
name(in, slot) == IF map_name(slot) # None THEN map_name(slot).some ELSE os_name(in, slot.id)
mapping_source(slot) == IF slot.mapping.default THEN "Driver" ELSE "SdlMappings"

\* Gilrs::gamepad: the slot of id, None when the id was never observed
gamepad(data, id) == IF id < Len(data) THEN data[id + 1] ELSE None

\* GamepadData::axis_or_btn_name
axis_or_btn_name(slot, nec) == map(slot.mapping, nec)

\* ------------------------------------------------------------- translation
\* The result of translating one raw event: the primary event type, the events
\* pushed on the queue behind it, the slots and the messages sent.
Translated(event, queued, data, sends) ==
    [event |-> event, queued |-> queued, gamepads_data |-> data, sends |-> sends]

\* Mutant of translate_button: the value change is handed out first and the
\* press or release queued behind it
translate_button_swapped(raw, data, pressed) ==
    LET nec == raw.code
        value == IF pressed THEN One ELSE 0
        primary(b) == IF pressed THEN ButtonPressed(b, nec) ELSE ButtonReleased(b, nec)
        m == axis_or_btn_name(gamepad(data, raw.id), nec)
        b == IF m.kind = "Btn" THEN m.elem ELSE "Unknown"
    IN IF m.kind = "Axis"
       THEN Translated(AxisChanged(m.elem, value, nec), <<>>, data, <<>>)
       ELSE Translated(ButtonChanged(b, value, nec),
                       <<Event(raw.id, primary(b), raw.time)>>, data, <<>>)

\* Mutant of translate_button: a code mapped to an axis is translated like a
\* button, and the AxisChanged queued behind it
translate_button_both(raw, data, pressed) ==
    LET nec == raw.code
        value == IF pressed THEN One ELSE 0
        primary(b) == IF pressed THEN ButtonPressed(b, nec) ELSE ButtonReleased(b, nec)
        m == axis_or_btn_name(gamepad(data, raw.id), nec)
    IN CASE m.kind = "Btn" ->
              Translated(primary(m.elem),
                         <<Event(raw.id, ButtonChanged(m.elem, value, nec), raw.time)>>,
                         data, <<>>)
         [] m.kind = "Axis" ->
              Translated(primary("Unknown"),
                         <<Event(raw.id, AxisChanged(m.elem, value, nec), raw.time)>>,
                         data, <<>>)
         [] OTHER ->
              Translated(primary("Unknown"),
                         <<Event(raw.id, ButtonChanged("Unknown", value, nec), raw.time)>>,
                         data, <<>>)

\* RawEventType::ButtonPressed / ButtonReleased (value 1.0 / 0.0)
translate_button(raw, data, pressed) ==
    LET nec == raw.code
        value == IF pressed THEN One ELSE 0
        primary(b) == IF pressed THEN ButtonPressed(b, nec) ELSE ButtonReleased(b, nec)
        m == axis_or_btn_name(gamepad(data, raw.id), nec)
    IN CASE m.kind = "Btn" ->
              Translated(primary(m.elem),
                         <<Event(raw.id, ButtonChanged(m.elem, value, nec), raw.time)>>,
                         data, <<>>)
         [] m.kind = "Axis" ->
              Translated(AxisChanged(m.elem, value, nec), <<>>, data, <<>>)
         [] OTHER ->
              Translated(primary("Unknown"),
                         <<Event(raw.id, ButtonChanged("Unknown", value, nec), raw.time)>>,
                         data, <<>>)

\* Mutant of axis_to_btn: the thresholds compared strictly
axis_to_btn_strict(raw, data, b, val) ==
    LET nec == raw.code
        st == gamepad(data, raw.id).state
        changed == Event(raw.id, ButtonChanged(b, val, nec), raw.time)
    IN IF f_gt(val, thresholds.pressed) /\ ~state_is_pressed(st, nec)
       THEN Translated(ButtonPressed(b, nec), <<changed>>, data, <<>>)
       ELSE IF f_lt(val, thresholds.released) /\ state_is_pressed(st, nec)
       THEN Translated(ButtonReleased(b, nec), <<changed>>, data, <<>>)
       ELSE Translated(ButtonChanged(b, val, nec), <<>>, data, <<>>)

\* Mutant of axis_to_btn: the cached state is not consulted
axis_to_btn_stateless(raw, data, b, val) ==
    LET nec == raw.code
        changed == Event(raw.id, ButtonChanged(b, val, nec), raw.time)
    IN IF f_ge(val, thresholds.pressed)
       THEN Translated(ButtonPressed(b, nec), <<changed>>, data, <<>>)
       ELSE IF f_le(val, thresholds.released)
       THEN Translated(ButtonReleased(b, nec), <<changed>>, data, <<>>)
       ELSE Translated(ButtonChanged(b, val, nec), <<>>, data, <<>>)

\* The hysteresis of an axis mapped to a button: pressed at or above
\* self.axis_to_btn_pressed when the cached state is not pressed, released at
\* or below self.axis_to_btn_released when it is pressed.
axis_to_btn(raw, data, b, val) ==
    LET nec == raw.code
        st == gamepad(data, raw.id).state
        changed == Event(raw.id, ButtonChanged(b, val, nec), raw.time)
    IN IF f_ge(val, thresholds.pressed) /\ ~state_is_pressed(st, nec)
       THEN Translated(ButtonPressed(b, nec), <<changed>>, data, <<>>)
       ELSE IF f_le(val, thresholds.released) /\ state_is_pressed(st, nec)
       THEN Translated(ButtonReleased(b, nec), <<changed>>, data, <<>>)
       ELSE Translated(ButtonChanged(b, val, nec), <<>>, data, <<>>)

\* Mutant of translate_axis: a sample of a code the mapping does not cover is
\* discarded
translate_axis_mapped_only(raw, in, data) ==
    LET nec == raw.code
        info == axis_info(in[raw.id + 1].model, nec)
        m == axis_or_btn_name(gamepad(data, raw.id), nec)
    IN CASE m.kind = "Btn" ->
              axis_to_btn(raw, data, m.elem, btn_value(info, raw.val))
         [] m.kind = "Axis" ->
              Translated(AxisChanged(m.elem, axis_value(info, raw.val, m.elem), nec),
                         <<>>, data, <<>>)
         [] OTHER -> Translated(Dropped, <<>>, data, <<>>)

\* RawEventType::AxisValueChanged
translate_axis(raw, in, data) ==
    LET nec == raw.code
        info == axis_info(in[raw.id + 1].model, nec)
        m == axis_or_btn_name(gamepad(data, raw.id), nec)
    IN CASE m.kind = "Btn" ->
              axis_to_btn(raw, data, m.elem, btn_value(info, raw.val))
         [] m.kind = "Axis" ->
              Translated(AxisChanged(m.elem, axis_value(info, raw.val, m.elem), nec),
                         <<>>, data, <<>>)
         [] OTHER ->
              Translated(AxisChanged("Unknown", axis_value(info, raw.val, "Unknown"),
                                     nec),
                         <<>>, data, <<>>)

\* RawEventType::Connected: a new slot is pushed when id is the number of slots,
\* the slot of id is replaced when id is smaller, and nothing is done (but an
\* error logged) when id is larger.
translate_connected(raw, in, data) ==
    LET id == raw.id
    IN IF id = Len(data)
       THEN Translated(Connected, <<>>, Append(data, GamepadData_new(in, id, None)),
                       GamepadData_sends(in, id))
       ELSE IF id < Len(data)
       THEN Translated(Connected, <<>>,
                       [data EXCEPT ![id + 1] = GamepadData_new(in, id, data[id + 1])],
                       GamepadData_sends(in, id))
       ELSE Translated(Connected, <<>>, data, <<>>)

\* Mutant of translate_disconnected: no Close is sent
translate_disconnected_silent(raw, data) ==
    Translated(Disconnected, <<>>, data, <<>>)

\* RawEventType::Disconnected: Close is sent, the slot is left as it is.
translate_disconnected(raw, data) ==
    Translated(Disconnected, <<>>, data, <<Close(raw.id)>>)

\* The match of next_event_priv on the raw event's type; in is the backend's
\* state after it delivered raw.
translate(raw, in, data) ==
    CASE raw.type = "ButtonPressed" -> translate_button(raw, data, TRUE)
      [] raw.type = "ButtonReleased" -> translate_button(raw, data, FALSE)
      [] raw.type = "AxisValueChanged" -> translate_axis(raw, in, data)
      [] raw.type = "Connected" -> translate_connected(raw, in, data)
      [] raw.type = "Disconnected" -> translate_disconnected(raw, data)

\* ------------------------------------------------------------- update
\* The match of Gilrs::update: the event applied to the state st of its slot
update_slot(st, ev, cnt) ==
    LET e == ev.event
    IN CASE e.type = "ButtonPressed" ->
              set_btn_pressed(st, e.code, TRUE, cnt, ev.time)
         [] e.type = "ButtonReleased" ->
              set_btn_pressed(st, e.code, FALSE, cnt, ev.time)
         [] e.type = "ButtonRepeated" ->
              set_btn_repeating(st, e.code, cnt, ev.time)
         [] e.type = "ButtonChanged" ->
              set_btn_value(st, e.code, e.value, cnt, ev.time)
         [] e.type = "AxisChanged" ->
              update_axis(st, e.code, AxisData_new(e.value, cnt, ev.time))
         [] OTHER -> st

\* Mutant of update: a press or release flips the pressed flag
update_toggling(data, ev, cnt) ==
    IF gamepad(data, ev.id) = None THEN data
    ELSE LET st == data[ev.id + 1].state
             e == ev.event
         IN [data EXCEPT ![ev.id + 1].state =
                IF e.type \in {"ButtonPressed", "ButtonReleased"}
                THEN set_btn_pressed(st, e.code, ~state_is_pressed(st, e.code),
                                     cnt, ev.time)
                ELSE update_slot(st, ev, cnt)]

\* Mutant of update: a release is recorded as a press
update_sticky(data, ev, cnt) ==
    IF gamepad(data, ev.id) = None THEN data
    ELSE LET st == data[ev.id + 1].state
             e == ev.event
         IN [data EXCEPT ![ev.id + 1].state =
                IF e.type = "ButtonReleased"
                THEN set_btn_pressed(st, e.code, TRUE, cnt, ev.time)
                ELSE update_slot(st, ev, cnt)]

\* Mutant of update: the counter is not recorded
update_uncounted(data, ev, cnt) ==
    IF gamepad(data, ev.id) = None THEN data
    ELSE [data EXCEPT ![ev.id + 1].state = update_slot(data[ev.id + 1].state, ev, 0)]

\* Mutant of update: the event is applied to the state of every slot
update_every_slot(data, ev, cnt) ==
    [i \in 1 .. Len(data) |->
        [data[i] EXCEPT !.state = update_slot(data[i].state, ev, cnt)]]

\* Gilrs::update: the event applied to the state of the slot of its id
update(data, ev, cnt) ==
    IF gamepad(data, ev.id) = None THEN data
    ELSE [data EXCEPT ![ev.id + 1].state = update_slot(data[ev.id + 1].state, ev, cnt)]

\* The entry of the cached state that update(data, ev, _) writes, if any
writes(data, ev) ==
    IF gamepad(data, ev.id) # None /\ ev.event.code \in Codes
    THEN CASE ev.event.type \in {"ButtonPressed", "ButtonReleased", "ButtonRepeated",
                                 "ButtonChanged"} -> {<<ev.id, "buttons", ev.event.code>>}
           [] ev.event.type = "AxisChanged" -> {<<ev.id, "axes", ev.event.code>>}
           [] OTHER -> {}
    ELSE {}

\* Mutant of auto_update: the state is updated whatever update_state says
auto_update_forced(data, filtered, again, enabled) ==
    IF ~again /\ filtered # None THEN update(data, filtered, counter) ELSE data

\* The end of next_event: the event it is about to return is applied to the
\* cached state if update_state is enabled
auto_update(data, filtered, again, enabled) ==
    IF ~again /\ enabled /\ filtered # None
    THEN update(data, filtered, counter)
    ELSE data

\* ------------------------------------------------------------- filters
\* The smallest difference the jitter filter lets through: 0.01.
JitterThreshold == 1

\* ev::filter::axis_dpad_to_button: synthesises d-pad buttons from hat axes; the
\* devices of the model have no hat axis, so every event passes unchanged.
axis_dpad_to_button(ev, data) == ev

\* ev::filter::Jitter: a value-changed event is dropped when its value differs
\* from the cached one by less than the threshold, unless the cached entry was
\* written by a press or release of the same raw event.
jitter(ev, data) ==
    IF ev = None \/ gamepad(data, ev.id) = None THEN ev
    ELSE LET st == gamepad(data, ev.id).state
             e == ev.event
             b == state_button_data(st, e.code)
             a == state_axis_data(st, e.code)
         IN CASE e.type = "ButtonChanged" /\ b # NoData ->
                   IF Abs(e.value - b.value) < JitterThreshold /\ b.timestamp # ev.time
                   THEN drop(ev) ELSE ev
              [] e.type = "AxisChanged" /\ a # NoData ->
                   IF Abs(e.value - a.value) < JitterThreshold THEN drop(ev) ELSE ev
              [] OTHER -> ev

\* ev::filter::deadzone: an axis value inside AxisInfo::deadzone() becomes 0, and
\* the event is dropped when the cached value is 0 already.
deadzone(ev, data, in) ==
    IF ev = None \/ gamepad(data, ev.id) = None \/ ev.id >= Len(in) THEN ev
    ELSE LET st == gamepad(data, ev.id).state
             e == ev.event
         IN IF e.type = "AxisChanged" /\ e.code \in AxisCodes
               /\ Abs(e.value) <= AxisInfo_deadzone(axis_info(in[ev.id + 1].model, e.code))
            THEN IF state_value(st, e.code) = 0
                 THEN drop(ev)
                 ELSE Event(ev.id, AxisChanged(e.elem, 0, e.code), ev.time)
            ELSE ev

\* The default filter chain of next_event
filter_chain(ev, data, in) ==
    deadzone(jitter(axis_dpad_to_button(ev, data), data), data, in)

\* ------------------------------------------------------------- construction
\* The devices the backend already holds when build() runs: none, or one
\* connected device of any model.
InitialBackends ==
    {<<>>} \cup {<<BackendGamepad(x[1], x[2])>>
                    : x \in {y \in DeviceModels \X BOOLEAN : y[2] \in FfOutcomes(y[1])}}

\* Gilrs::finish_gamepads_creation: one slot per id below last_gamepad_hint()
RECURSIVE finish_gamepads_creation(_, _, _)
finish_gamepads_creation(in, id, acc) ==
    IF id >= last_gamepad_hint(in) THEN acc
    ELSE finish_gamepads_creation(in, id + 1,
            [data |-> Append(acc.data, GamepadData_new(in, id, None)),
             sent |-> acc.sent \o GamepadData_sends(in, id)])

\* What gilrs_core::Gilrs::new() answers: a backend with the devices already
\* plugged in, the dummy backend of an unsupported platform inside
\* NotImplemented, or another platform error.
PlatformOutcomes ==
    {[kind |-> "Ok", inner |-> in] : in \in InitialBackends}
        \cup {[kind |-> "NotImplemented", inner |-> <<>>], [kind |-> "Other", inner |-> <<>>]}

\* The thresholds a caller hands to set_axis_to_btn: the defaults, the ends
\* of [0, 1], a value on either side of the range, and NaN.
ThresholdInputs ==
    {NaN, 0 - 1, 0, axis_to_btn_released, axis_to_btn_pressed, One, One + 1}

\* GilrsBuilder as build() finds it, together with the platform's answer
Builders ==
    [axis_to_btn_pressed : ThresholdInputs, axis_to_btn_released : ThresholdInputs,
     default_filters : BOOLEAN, update_state : BOOLEAN, platform : PlatformOutcomes]

\* GilrsBuilder::new with with_default_filters and set_update_state chosen by
\* the caller, on a supported platform
DefaultBuilders ==
    {b \in Builders : /\ b.axis_to_btn_pressed = axis_to_btn_pressed
                      /\ b.axis_to_btn_released = axis_to_btn_released
                      /\ b.platform.kind = "Ok"}

\* The threshold test of build()
invalid_axis_to_btn(pressed, released) ==
    \/ f_le(pressed, released)
    \/ f_lt(pressed, 0)
    \/ f_gt(pressed, One)
    \/ f_lt(released, 0)
    \/ f_gt(released, One)

\* Mutant of build: an unsupported platform yields no instance
build_no_dummy(b) ==
    IF invalid_axis_to_btn(b.axis_to_btn_pressed, b.axis_to_btn_released)
    THEN [kind |-> "InvalidAxisToBtn", gilrs |-> None]
    ELSE IF b.platform.kind # "Ok"
    THEN [kind |-> b.platform.kind, gilrs |-> None]
    ELSE LET made == finish_gamepads_creation(b.platform.inner, 0,
                                              [data |-> <<>>, sent |-> <<>>])
         IN [kind |-> "Ok",
             gilrs |-> [inner |-> b.platform.inner,
                        next_id |-> 0,
                        counter |-> 0,
                        default_filters |-> b.default_filters,
                        events |-> <<>>,
                        axis_to_btn_pressed |-> b.axis_to_btn_pressed,
                        axis_to_btn_released |-> b.axis_to_btn_released,
                        update_state |-> b.update_state,
                        gamepads_data |-> made.data,
                        sent |-> made.sent]]

\* GilrsBuilder::build: the kind of its Result and the instance inside it, or
\* None; sent are the messages the construction of the slots sent.
build(b) ==
    IF invalid_axis_to_btn(b.axis_to_btn_pressed, b.axis_to_btn_released)
    THEN [kind |-> "InvalidAxisToBtn", gilrs |-> None]
    ELSE IF b.platform.kind = "Other"
    THEN [kind |-> "Other", gilrs |-> None]
    ELSE LET made == finish_gamepads_creation(b.platform.inner, 0,
                                              [data |-> <<>>, sent |-> <<>>])
         IN [kind |-> b.platform.kind,
             gilrs |-> [inner |-> b.platform.inner,
                        next_id |-> 0,
                        counter |-> 0,
                        default_filters |-> b.default_filters,
                        events |-> <<>>,
                        axis_to_btn_pressed |-> b.axis_to_btn_pressed,
                        axis_to_btn_released |-> b.axis_to_btn_released,
                        update_state |-> b.update_state,
                        gamepads_data |-> made.data,
                        sent |-> made.sent]]

NoHistory == [i \in Ids |-> [c \in Codes |-> "none"]]
\* The worker when it starts: no message processed, no device, no effect
WorkerInit ==
    [alive |-> TRUE, last |-> "none", pos |-> 0, devices |-> [i \in Ids |-> None],
     effects |-> {}, cmds |-> <<>>]
NoCall == [op |-> "none"]

\* GilrsBuilder::build with the default thresholds on a supported platform
Init ==
    \E b \in DefaultBuilders :
        LET g == build(b).gilrs
        IN /\ builder = b
           /\ built = build(b).kind
           /\ inner = g.inner
           /\ default_filters = g.default_filters
           /\ update_state = g.update_state
           /\ gamepads_data = g.gamepads_data
           /\ chan = g.sent
           /\ thresholds = [pressed |-> g.axis_to_btn_pressed,
                            released |-> g.axis_to_btn_released]
           /\ next_id = g.next_id
           /\ events = g.events
           /\ counter = g.counter
           /\ rawCount = 0
           /\ pc = "idle"
           /\ ret = None
           /\ pulled = NoRaw
           /\ out = None
           /\ replaced = None
           /\ last_pr = NoHistory
           /\ calls = 0
           /\ ids_out = <<>>
           /\ worker = WorkerInit
           /\ last_call = NoCall
           /\ incs = 0
           /\ rewound = FALSE
           /\ written = {}

\* Before build(): any builder and any answer of the platform, no instance
InitBuilder ==
    /\ builder \in Builders
    /\ built = "none"
    /\ pc = "builder"
    /\ inner = <<>>
    /\ default_filters = builder.default_filters
    /\ update_state = builder.update_state
    /\ gamepads_data = <<>>
    /\ chan = <<>>
    /\ thresholds = [pressed |-> axis_to_btn_pressed, released |-> axis_to_btn_released]
    /\ next_id = 0
    /\ events = <<>>
    /\ counter = 0
    /\ rawCount = 0
    /\ ret = None
    /\ pulled = NoRaw
    /\ out = None
    /\ replaced = None
    /\ last_pr = NoHistory
    /\ calls = 0
    /\ ids_out = <<>>
    /\ worker = WorkerInit
    /\ last_call = NoCall
    /\ incs = 0
    /\ rewound = FALSE
    /\ written = {}

\* GilrsBuilder::build called: the fields of the instance it made, if any
Build ==
    /\ pc = "builder"
    /\ LET r == build(builder)
           g == r.gilrs
       IN /\ built' = r.kind
          /\ IF g = None
             THEN /\ pc' = "failed"
                  /\ UNCHANGED <<inner, default_filters, update_state, gamepads_data,
                                 chan, thresholds, next_id, events, counter>>
             ELSE /\ pc' = "idle"
                  /\ inner' = g.inner
                  /\ default_filters' = g.default_filters
                  /\ update_state' = g.update_state
                  /\ gamepads_data' = g.gamepads_data
                  /\ chan' = g.sent
                  /\ thresholds' = [pressed |-> g.axis_to_btn_pressed,
                                    released |-> g.axis_to_btn_released]
                  /\ next_id' = g.next_id
                  /\ events' = g.events
                  /\ counter' = g.counter
    /\ UNCHANGED <<builder, rawCount, ret, pulled, out, replaced, last_pr, calls,
                   ids_out, worker, last_call, incs, rewound, written>>

\* ------------------------------------------------------------- next_event
\* Mutant of pop_front: the queue popped at its back
pop_back(q) == [ev |-> q[Len(q)], rest |-> SubSeq(q, 1, Len(q) - 1)]

\* VecDeque::pop_front of a non-empty queue
pop_front(q) == [ev |-> Head(q), rest |-> Tail(q)]

\* Mutant of skips: the loop goes on whenever the filters are enabled
skips_always(filtered) == default_filters

\* Whether next_event loops: only dropped events of the filtered pipeline are skipped
skips(filtered) == default_filters /\ filtered # None /\ is_dropped(filtered)

\* The history last_pr after next_event returned r in an iteration that pulled raw
record_pr(raw, r) ==
    LET cleared == IF raw # NoRaw /\ raw.type = "Connected"
                   THEN [last_pr EXCEPT ![raw.id] = [c \in Codes |-> "none"]]
                   ELSE last_pr
    IN IF r # None /\ r.id \in Ids /\ r.event.code \in Codes
          /\ r.event.type \in {"ButtonPressed", "ButtonReleased"}
       THEN [cleared EXCEPT ![r.id][r.event.code] =
                IF r.event.type = "ButtonPressed" THEN "pressed" ELSE "released"]
       ELSE cleared

\* Mutant of send_ignored: the result of send() is unwrapped
send_unwrapped(ch, msgs, alive) ==
    [chan |-> IF alive THEN ch \o msgs ELSE ch, panic |-> ~alive /\ msgs # <<>>]

\* let _ = tx.send(..): a message reaches the channel while its receiving end
\* exists, and the error send() returns otherwise is ignored
send_ignored(ch, msgs, alive) ==
    [chan |-> IF alive THEN ch \o msgs ELSE ch, panic |-> FALSE]

\* One iteration of next_event around the result of next_event_priv: ev is what
\* next_event_priv returned, q, data, in the queue, the slots and the backend
\* after it, sends the messages it sent, raw the raw event it pulled.
iteration(ev, q, data, sends, in, raw) ==
    LET filtered == IF default_filters THEN filter_chain(ev, data, in) ELSE ev
        again == skips(filtered)
        sent == send_ignored(chan, sends, worker.alive)
    IN /\ pc \in {"idle", "loop"}
       /\ events' = q
       /\ gamepads_data' = auto_update(data, filtered, again, update_state)
       /\ written' =
            LET kept == IF raw # NoRaw /\ raw.type = "Connected"
                        THEN {w \in written : w[1] # raw.id}
                        ELSE written
            IN IF ~again /\ update_state /\ filtered # None
               THEN kept \cup writes(data, filtered)
               ELSE kept
       /\ chan' = sent.chan
       /\ inner' = in
       /\ pulled' = raw
       /\ out' = ev
       /\ replaced' = IF raw # NoRaw /\ raw.type = "Connected"
                      THEN gamepad(gamepads_data, raw.id)
                      ELSE None
       /\ rawCount' = IF raw = NoRaw THEN rawCount ELSE rawCount + 1
       /\ pc' = IF sent.panic THEN "panicked" ELSE IF again THEN "loop" ELSE "idle"
       /\ ret' = IF again \/ sent.panic THEN ret ELSE filtered
       /\ last_pr' = record_pr(raw, IF again \/ sent.panic THEN None ELSE filtered)
       /\ UNCHANGED <<counter, default_filters, update_state, calls>>
       /\ UNCHANGED <<built_vars, ff_vars, count_vars>>

\* next_event_priv with a queued event: it is popped, the backend is not polled
PopQueued ==
    /\ events # <<>>
    /\ LET p == pop_front(events)
       IN iteration(p.ev, p.rest, gamepads_data, <<>>, inner, NoRaw)

\* next_event_priv with an empty queue and a raw event pending: it is translated
PullAnswer(b) ==
    LET t == translate(b.raw, b.inner, gamepads_data)
    IN iteration(Event(b.raw.id, t.event, b.raw.time), events \o t.queued,
                 t.gamepads_data, t.sends, b.inner, b.raw)

\* Mutant of PullRaw: the backend is polled whether or not events are queued
PullRaw_eager == \E b \in BackendAnswers : PullAnswer(b)

PullRaw ==
    /\ events = <<>>
    /\ \E b \in BackendAnswers : PullAnswer(b)

\* next_event_priv with an empty queue and no raw event pending
PollEmpty ==
    /\ events = <<>>
    /\ iteration(None, events, gamepads_data, <<>>, inner, NoRaw)

\* ------------------------------------------------------------- the caller
\* The largest value of the 62-bit counter, 0x3FFF_FFFF_FFFF_FFFF in the code;
\* the model's counter wraps at a small value, which fits the integers of the model.
CounterLast == 3

\* Mutant of inc: the counter never wraps
inc_unbounded(c) == c + 1

\* Gilrs::inc
inc(c) == IF c = CounterLast THEN 0 ELSE c + 1

\* Gilrs::inc called; the history counts the call and notes a wrap
IncStep ==
    /\ pc = "idle"
    /\ counter' = inc(counter)
    /\ incs' = incs + 1
    /\ rewound' = (rewound \/ counter = CounterLast)
    /\ written' = {}
    /\ UNCHANGED <<inner, rawCount, gamepads_data, events, default_filters, update_state,
                   chan, pc, ret, pulled, out, replaced, last_pr>>
    /\ UNCHANGED <<built_vars, ff_vars>>

Inc ==
    /\ calls < MaxCalls
    /\ IncStep
    /\ calls' = calls + 1

\* The events a caller inserts: a dropped one and a button press, for the first
\* and for the last id.
InsertableEvents ==
    {Event(i, e, 0) : <<i, e>> \in {0, MaxGamepads - 1}
                                    \X {Dropped, ButtonPressed("South", "B1")}}

\* Mutant of InsertEvent: the event is pushed at the front of the queue
InsertEvent_front ==
    /\ pc = "idle"
    /\ calls < MaxCalls
    /\ \E ev \in InsertableEvents : events' = <<ev>> \o events
    /\ calls' = calls + 1
    /\ UNCHANGED written
    /\ UNCHANGED <<inner, rawCount, gamepads_data, counter, default_filters, update_state,
                   chan, pc, ret, pulled, out, replaced, last_pr>>
    /\ UNCHANGED <<built_vars, ff_vars, count_vars>>

\* Gilrs::insert_event
InsertEvent ==
    /\ pc = "idle"
    /\ calls < MaxCalls
    /\ \E ev \in InsertableEvents : events' = Append(events, ev)
    /\ calls' = calls + 1
    /\ UNCHANGED written
    /\ UNCHANGED <<inner, rawCount, gamepads_data, counter, default_filters, update_state,
                   chan, pc, ret, pulled, out, replaced, last_pr>>
    /\ UNCHANGED <<built_vars, ff_vars, count_vars>>

\* The events a caller applies itself: the one next_event just returned, or a
\* press it made up.
UpdatableEvents ==
    (IF ret = None THEN {} ELSE {ret})
        \cup {Event(0, ButtonPressed("LeftTrigger2", "A1"), 0)}

\* Gilrs::update called by the caller
Update ==
    /\ pc = "idle"
    /\ calls < MaxCalls
    /\ \E ev \in UpdatableEvents :
          /\ gamepads_data' = update(gamepads_data, ev, counter)
          /\ written' = written \cup writes(gamepads_data, ev)
          /\ last_call' = [op |-> "update", event |-> ev]
    /\ calls' = calls + 1
    /\ UNCHANGED <<inner, rawCount, events, counter, default_filters, update_state,
                   chan, pc, ret, pulled, out, replaced, last_pr>>
    /\ UNCHANGED <<built_vars, next_id, ids_out, worker, count_vars>>

\* Gilrs::inc called as often as it takes to wrap the counter
IncAgain ==
    /\ incs < MaxIncs
    /\ IncStep
    /\ UNCHANGED calls

\* Gilrs::reset_counter
reset_counter(c) == 0

ResetCounter ==
    /\ pc = "idle"
    /\ counter' = reset_counter(counter)
    /\ incs' = 0
    /\ rewound' = TRUE
    /\ UNCHANGED written
    /\ UNCHANGED <<inner, rawCount, gamepads_data, events, default_filters, update_state,
                   chan, pc, ret, pulled, out, replaced, last_pr, calls>>
    /\ UNCHANGED <<built_vars, ff_vars>>

\* ------------------------------------------------------------- force feedback
\* The largest usize, usize::MAX in the code; the model's ids end at a small
\* value so that the end is reached.
UsizeLast == 3

\* Mutant of next_ff_id: the id wraps around
next_ff_id_wrapping(n) ==
    [panic |-> FALSE, id |-> n, next_id |-> (n + 1) % (UsizeLast + 1)]

\* Gilrs::next_ff_id: the id it returns and the next one, or a panic when
\* checked_add(1) overflows
next_ff_id(n) ==
    IF n = UsizeLast
    THEN [panic |-> TRUE, id |-> n, next_id |-> n]
    ELSE [panic |-> FALSE, id |-> n, next_id |-> n + 1]

NextFfId ==
    /\ pc = "idle"
    /\ LET r == next_ff_id(next_id)
       IN IF r.panic
          THEN /\ pc' = "panicked"
               /\ last_call' = [op |-> "next_ff_id", id |-> r.id, result |-> "panic"]
               /\ UNCHANGED <<next_id, ids_out>>
          ELSE /\ next_id' = r.next_id
               /\ ids_out' = Append(ids_out, r.id)
               /\ last_call' = [op |-> "next_ff_id", id |-> r.id, result |-> "Ok"]
               /\ UNCHANGED pc
    /\ UNCHANGED <<inner, rawCount, gamepads_data, events, counter, default_filters,
                   update_state, chan, ret, pulled, out, replaced, last_pr, calls, worker>>
    /\ UNCHANGED <<built_vars, count_vars, written>>

\* How the two system calls of Device::set_ff_state can end: the effect is
\* uploaded and the play command written, the upload ioctl fails, the write
\* is short, or the write fails.
HardwareOutcomes == {"ok", "upload_failed", "short_write", "write_error"}

\* Device::set_ff_state: unimplemented!() when the upload fails,
\* unreachable!() on a short write, error!() when the write fails
set_ff_state(hw) ==
    CASE hw = "upload_failed" -> "panic"
      [] hw = "short_write" -> "panic"
      [] hw = "write_error" -> "logged"
      [] OTHER -> "ok"

\* The devices the worker holds: those an Open message brought it
OpenedDevices == {chan[i].id : i \in {j \in 1 .. Len(chan) : chan[j].type = "Open"}}

\* The worker sets the state of the motors of one of its devices
SetFfState ==
    /\ worker.alive
    /\ OpenedDevices # {}
    /\ \E hw \in HardwareOutcomes :
          worker' = [worker EXCEPT !.alive = set_ff_state(hw) # "panic",
                                   !.last = set_ff_state(hw)]
    /\ UNCHANGED <<inner, rawCount, gamepads_data, events, counter, default_filters,
                   update_state, chan, pc, ret, pulled, out, replaced, last_pr, calls,
                   next_id, ids_out, last_call>>
    /\ UNCHANGED <<built_vars, count_vars, written>>

\* The positions a caller sets
Positions == {<<0, 0, 0>>, <<One, 0, 0>>}

\* Mutant of set_listener_position: force feedback support is tested first
set_listener_position_ff_first(in, id, position, alive) ==
    IF ~is_ff_supported(in, id)
    THEN [result |-> "FfNotSupported", sends |-> <<>>]
    ELSE IF ~is_connected(in, id)
    THEN [result |-> "Disconnected", sends |-> <<>>]
    ELSE IF ~alive
    THEN [result |-> "SendFailed", sends |-> <<>>]
    ELSE [result |-> "Ok", sends |-> <<SetListenerPosition(id, position)>>]

\* Gamepad::set_listener_position on the handle of id; alive is whether the
\* receiving end of the channel still exists, without which send() fails and
\* the ? returns its error
set_listener_position(in, id, position, alive) ==
    IF ~is_connected(in, id)
    THEN [result |-> "Disconnected", sends |-> <<>>]
    ELSE IF ~is_ff_supported(in, id)
    THEN [result |-> "FfNotSupported", sends |-> <<>>]
    ELSE IF ~alive
    THEN [result |-> "SendFailed", sends |-> <<>>]
    ELSE [result |-> "Ok", sends |-> <<SetListenerPosition(id, position)>>]

SetListenerPositionCall ==
    /\ pc = "idle"
    /\ calls < MaxCalls
    /\ \E id \in Ids : \E position \in Positions :
          /\ gamepad(gamepads_data, id) # None
          /\ LET r == set_listener_position(inner, id, position, worker.alive)
             IN /\ chan' = chan \o r.sends
                /\ last_call' = [op |-> "set_listener_position", id |-> id,
                                 position |-> position, result |-> r.result]
    /\ calls' = calls + 1
    /\ UNCHANGED <<inner, rawCount, gamepads_data, events, counter, default_filters,
                   update_state, pc, ret, pulled, out, replaced, last_pr,
                   next_id, ids_out, worker>>
    /\ UNCHANGED <<built_vars, count_vars, written>>

\* ------------------------------------------------------------- the scheduler
\* The largest u16, the type of a motor magnitude
U16Last == 65535

\* Message::Create: effect eid with its magnitudes starts on device id
Create(eid, id, magnitude) ==
    [type |-> "Create", eid |-> eid, id |-> id, magnitude |-> magnitude]

\* The magnitudes of the effects a caller creates, by effect id: weaker and
\* stronger ones in turn
EffectMagnitude(eid) ==
    IF eid % 2 = 0 THEN [strong |-> 20000, weak |-> 40000]
    ELSE [strong |-> 50000, weak |-> 0]

\* Mutant of Magnitude_add: the sums wrap around
Magnitude_add_wrapping(a, b) ==
    [strong |-> (a.strong + b.strong) % (U16Last + 1),
     weak |-> (a.weak + b.weak) % (U16Last + 1)]

\* The sum of two magnitudes: saturating addition per motor
Magnitude_add(a, b) ==
    [strong |-> Min(a.strong + b.strong, U16Last),
     weak |-> Min(a.weak + b.weak, U16Last)]

\* The combined magnitude of a set of effects
RECURSIVE combine(_)
combine(effects) ==
    IF effects = {} THEN [strong |-> 0, weak |-> 0]
    ELSE LET e == CHOOSE x \in effects : TRUE
         IN Magnitude_add(e.magnitude, combine(effects \ {e}))

\* Mutant of process: Close drops the handle and keeps the effects
process_keeping(w, msg) ==
    LET done == [w EXCEPT !.pos = w.pos + 1]
    IN CASE msg.type = "Open" ->
              [done EXCEPT !.devices[msg.id] = [handle |-> msg.device, position |-> <<0, 0, 0>>],
                           !.effects = {e \in w.effects : e.id # msg.id}]
         [] msg.type = "Close" -> [done EXCEPT !.devices[msg.id] = None]
         [] msg.type = "SetListenerPosition" /\ w.devices[msg.id] # None ->
              [done EXCEPT !.devices[msg.id].position = msg.position]
         [] msg.type = "Create" ->
              [done EXCEPT !.effects = w.effects \cup
                              {[eid |-> msg.eid, id |-> msg.id, magnitude |-> msg.magnitude]}]
         [] OTHER -> done

\* The scheduler processes one message: Open registers the handle with no
\* effects, Close drops the handle and the effects of the id, and a message
\* for an id that is not open does nothing.
process(w, msg) ==
    LET done == [w EXCEPT !.pos = w.pos + 1]
    IN CASE msg.type = "Open" ->
              [done EXCEPT !.devices[msg.id] = [handle |-> msg.device, position |-> <<0, 0, 0>>],
                           !.effects = {e \in w.effects : e.id # msg.id}]
         [] msg.type = "Close" ->
              [done EXCEPT !.devices[msg.id] = None,
                           !.effects = {e \in w.effects : e.id # msg.id}]
         [] msg.type = "SetListenerPosition" /\ w.devices[msg.id] # None ->
              [done EXCEPT !.devices[msg.id].position = msg.position]
         [] msg.type = "Create" /\ w.devices[msg.id] # None ->
              [done EXCEPT !.effects = w.effects \cup
                              {[eid |-> msg.eid, id |-> msg.id, magnitude |-> msg.magnitude]}]
         [] OTHER -> done

\* One tick: for every open device, in the order of the ids, the magnitudes
\* of its effects are combined and set with one set_ff_state; hw is how the
\* hardware answers each device, and a panic of set_ff_state ends the tick
\* and the worker.
RECURSIVE tick(_, _, _, _)
tick(w, hw, id, cmds) ==
    IF id >= MaxGamepads THEN [w EXCEPT !.cmds = cmds]
    ELSE IF w.devices[id] = None THEN tick(w, hw, id + 1, cmds)
    ELSE LET cmd == [id |-> id,
                     magnitude |-> combine({e \in w.effects : e.id = id})]
             r == set_ff_state(hw[id])
         IN IF r = "panic"
            THEN [w EXCEPT !.alive = FALSE, !.last = r, !.cmds = Append(cmds, cmd)]
            ELSE tick([w EXCEPT !.last = r], hw, id + 1, Append(cmds, cmd))

\* Mutant of Receive: the worker takes the newest message of the channel
Receive_newest ==
    /\ worker.alive
    /\ worker.pos < Len(chan)
    /\ worker' = process(worker, chan[Len(chan)])
    /\ UNCHANGED <<inner, rawCount, gamepads_data, events, counter, default_filters,
                   update_state, chan, pc, ret, pulled, out, replaced, last_pr, calls,
                   next_id, ids_out, last_call>>
    /\ UNCHANGED <<built_vars, count_vars, written>>

\* The worker receives the next message of the channel
Receive ==
    /\ worker.alive
    /\ worker.pos < Len(chan)
    /\ worker' = process(worker, chan[worker.pos + 1])
    /\ UNCHANGED <<inner, rawCount, gamepads_data, events, counter, default_filters,
                   update_state, chan, pc, ret, pulled, out, replaced, last_pr, calls,
                   next_id, ids_out, last_call>>
    /\ UNCHANGED <<built_vars, count_vars, written>>

\* The worker reaches a tick
Tick ==
    /\ worker.alive
    /\ \E hw \in {f \in [Ids -> HardwareOutcomes] :
                      \A i \in Ids : worker.devices[i] = None => f[i] = "ok"} :
          worker' = tick(worker, hw, 0, <<>>)
    /\ UNCHANGED <<inner, rawCount, gamepads_data, events, counter, default_filters,
                   update_state, chan, pc, ret, pulled, out, replaced, last_pr, calls,
                   next_id, ids_out, last_call>>
    /\ UNCHANGED <<built_vars, count_vars, written>>

\* The caller creates an effect for a device with force feedback: it gets
\* the next effect id and is sent to the scheduler, which fails when the
\* receiving end of the channel is gone
CreateEffect ==
    /\ pc = "idle"
    /\ calls < MaxCalls
    /\ \E id \in Ids :
          /\ gamepad(gamepads_data, id) # None
          /\ is_ff_supported(inner, id)
          /\ LET r == next_ff_id(next_id)
                 magnitude == EffectMagnitude(r.id)
             IN IF r.panic
                THEN /\ pc' = "panicked"
                     /\ last_call' = [op |-> "create_effect", id |-> id, result |-> "panic"]
                     /\ UNCHANGED <<next_id, ids_out, chan>>
                ELSE /\ next_id' = r.next_id
                     /\ ids_out' = Append(ids_out, r.id)
                     /\ chan' = IF worker.alive
                                THEN Append(chan, Create(r.id, id, magnitude))
                                ELSE chan
                     /\ last_call' = [op |-> "create_effect", id |-> id,
                                      result |-> IF worker.alive THEN "Ok" ELSE "SendFailed"]
                     /\ UNCHANGED pc
    /\ calls' = calls + 1
    /\ UNCHANGED <<inner, rawCount, gamepads_data, events, counter, default_filters,
                   update_state, ret, pulled, out, replaced, last_pr, worker>>
    /\ UNCHANGED <<built_vars, count_vars, written>>

\* ------------------------------------------------------------- reads
\* Mapping::map_rev: the code the mapping resolves to elem, NoCode if none.
\* Unknown is no key of a mapping.
map_rev(mapping, elem) ==
    LET cs == {c \in Codes : mapping.table[c] = elem /\ elem.elem # "Unknown"}
    IN IF cs = {} THEN NoCode ELSE CHOOSE c \in cs : TRUE

\* Button::to_nec: the code the driver's own layout gives a button
to_nec(btn) == IF btn = "South" THEN "B1" ELSE NoCode

\* GamepadData::button_code and GamepadData::axis_code. A read below gives
\* whether it panicked and the value it returned.
button_code(slot, btn) == map_rev(slot.mapping, Btn(btn))
axis_code(slot, axis) == map_rev(slot.mapping, Axis(axis))

\* Mutant of GamepadData_is_pressed: Unknown is looked up like any button
GamepadData_is_pressed_unchecked(slot, btn) ==
    LET c == button_code(slot, btn)
        nec == IF c # NoCode THEN c ELSE to_nec(btn)
    IN [panic |-> FALSE, value |-> nec # NoCode /\ state_is_pressed(slot.state, nec)]

\* GamepadData::is_pressed: assert_ne!(btn, Button::Unknown), then the code of
\* the mapping or else the driver's, false when there is none
GamepadData_is_pressed(slot, btn) ==
    IF btn = "Unknown" THEN [panic |-> TRUE, value |-> FALSE]
    ELSE LET c == button_code(slot, btn)
             nec == IF c # NoCode THEN c ELSE to_nec(btn)
         IN [panic |-> FALSE, value |-> nec # NoCode /\ state_is_pressed(slot.state, nec)]

\* Mutant of GamepadData_value: an axis without a code reads 1.0
GamepadData_value_one(slot, axis) ==
    IF axis = "Unknown" THEN [panic |-> TRUE, value |-> 0]
    ELSE LET nec == axis_code(slot, axis)
         IN [panic |-> FALSE, value |-> IF nec # NoCode THEN state_value(slot.state, nec) ELSE One]

\* GamepadData::value: assert_ne!(axis, Axis::Unknown), then the code of the
\* mapping, 0.0 when there is none
GamepadData_value(slot, axis) ==
    IF axis = "Unknown" THEN [panic |-> TRUE, value |-> 0]
    ELSE LET nec == axis_code(slot, axis)
         IN [panic |-> FALSE, value |-> IF nec # NoCode THEN state_value(slot.state, nec) ELSE 0]

\* GamepadData::button_data and GamepadData::axis_data: no assertion; NoData
\* stands for the Option's None
GamepadData_button_data(slot, btn) ==
    LET nec == button_code(slot, btn)
    IN [panic |-> FALSE,
        value |-> IF nec # NoCode THEN state_button_data(slot.state, nec) ELSE NoData]

GamepadData_axis_data(slot, axis) ==
    LET nec == axis_code(slot, axis)
    IN [panic |-> FALSE,
        value |-> IF nec # NoCode THEN state_axis_data(slot.state, nec) ELSE NoData]

\* The buttons and axes a caller asks for
ReadOps == ({"is_pressed", "button_data"} \X {"South", "LeftTrigger2", "Unknown"})
               \cup ({"value", "axis_data"} \X {"LeftStickX", "LeftZ", "Unknown"})

\* Gamepad::is_pressed, value, button_data, axis_data on the handle of id
read(slot, op, elem) ==
    CASE op = "is_pressed" -> GamepadData_is_pressed(slot, elem)
      [] op = "value" -> GamepadData_value(slot, elem)
      [] op = "button_data" -> GamepadData_button_data(slot, elem)
      [] op = "axis_data" -> GamepadData_axis_data(slot, elem)

\* The caller reads the cached state through a handle; a failed assertion
\* ends the caller
ReadCall ==
    /\ pc = "idle"
    /\ calls < MaxCalls
    /\ \E id \in Ids : \E x \in ReadOps :
          /\ gamepad(gamepads_data, id) # None
          /\ LET r == read(gamepad(gamepads_data, id), x[1], x[2])
             IN /\ last_call' = [op |-> x[1], id |-> id, elem |-> x[2],
                                 result |-> IF r.panic THEN "panic" ELSE "Ok",
                                 value |-> r.value]
                /\ pc' = IF r.panic THEN "panicked" ELSE pc
    /\ calls' = calls + 1
    /\ UNCHANGED <<inner, rawCount, gamepads_data, events, counter, default_filters,
                   update_state, chan, ret, pulled, out, replaced, last_pr,
                   next_id, ids_out, worker>>
    /\ UNCHANGED <<built_vars, count_vars, written>>

\* ------------------------------------------------------------- the iterator
\* Mutant of connected_gamepad: the handle is returned whether or not the
\* device is connected
connected_gamepad_any(in, data, id) ==
    IF gamepad(data, id) # None
    THEN [some |-> [inner |-> in[id + 1], data |-> gamepad(data, id)]]
    ELSE None

\* Gilrs::connected_gamepad: the handle of id (the backend's gamepad and the
\* slot), None without a slot or when the device is not connected
connected_gamepad(in, data, id) ==
    IF gamepad(data, id) # None /\ is_connected(in, id)
    THEN [some |-> [inner |-> in[id + 1], data |-> gamepad(data, id)]]
    ELSE None

\* ConnectedGamepadsIterator::next with the iterator at idx: the item it
\* returns and where it leaves the iterator
RECURSIVE ConnectedGamepadsIterator_next(_, _, _)
ConnectedGamepadsIterator_next(in, data, idx) ==
    IF idx = last_gamepad_hint(in)
    THEN [item |-> None, idx |-> idx]
    ELSE IF connected_gamepad(in, data, idx) # None
    THEN [item |-> [some |-> <<idx, connected_gamepad(in, data, idx).some>>],
          idx |-> idx + 1]
    ELSE ConnectedGamepadsIterator_next(in, data, idx + 1)

\* The iterator Gilrs::gamepads returns, at idx, driven until next() returns
\* None: the items it yielded and where it stopped
RECURSIVE gamepads(_, _, _)
gamepads(in, data, idx) ==
    LET n == ConnectedGamepadsIterator_next(in, data, idx)
    IN IF n.item = None
       THEN [items |-> <<>>, idx |-> n.idx]
       ELSE LET rest == gamepads(in, data, n.idx)
            IN [items |-> <<n.item.some>> \o rest.items, idx |-> rest.idx]

\* The caller goes through gilrs.gamepads()
GamepadsCall ==
    /\ pc = "idle"
    /\ calls < MaxCalls
    /\ LET it == gamepads(inner, gamepads_data, 0)
       IN last_call' = [op |-> "gamepads", items |-> it.items, idx |-> it.idx]
    /\ calls' = calls + 1
    /\ UNCHANGED <<inner, rawCount, gamepads_data, events, counter, default_filters,
                   update_state, chan, pc, ret, pulled, out, replaced, last_pr,
                   next_id, ids_out, worker>>
    /\ UNCHANGED <<built_vars, count_vars, written>>

\* ------------------------------------------------------------- normalisation alone
\* The ranges a device reports for an axis (min < max) and the raw values it
\* sends: the ends of i32, the ranges of the model's devices and of an 8-bit
\* axis, and values inside and outside of them.
NormEnds == {0 - IntLast - 1, 0 - 1, 0, 20, 255, IntLast}
NormInfos ==
    {[min |-> x[1], max |-> x[2], deadzone |-> 0] :
        x \in {y \in NormEnds \X NormEnds : y[1] < y[2]}}
NormValues == NormEnds \cup {4, 10, 200}

\* axis_value or btn_value applied to one input, once in a run; checks is
\* whether the build checks integer overflow (a debug build), and then an
\* overflowing subtraction panics, or wraps
Normalise(op, info, val, axis, checks) ==
    LET panic == checks /\ norm_overflows(info, val)
    IN /\ pc = "idle"
       /\ calls = 0
       /\ calls' = 1
       /\ last_call' = [op |-> op, info |-> info, val |-> val, axis |-> axis,
                        result |-> IF panic THEN "panic" ELSE "Ok",
                        value |-> IF panic THEN 0
                                  ELSE IF op = "axis_value" THEN axis_value(info, val, axis)
                                  ELSE btn_value(info, val)]
       /\ pc' = IF panic THEN "panicked" ELSE pc
       /\ UNCHANGED <<inner, rawCount, gamepads_data, events, counter, default_filters,
                      update_state, chan, ret, pulled, out, replaced, last_pr,
                      next_id, ids_out, worker>>
       /\ UNCHANGED <<built_vars, count_vars, written>>

NormaliseAxis ==
    \E info \in NormInfos : \E val \in NormValues :
        \E axis \in {"LeftStickX", "LeftStickY"} : \E checks \in BOOLEAN :
            Normalise("axis_value", info, val, axis, checks)

NormaliseBtn ==
    \E info \in NormInfos : \E val \in NormValues :
        \E checks \in BOOLEAN : Normalise("btn_value", info, val, "-", checks)

SpecNorm == Init /\ [][NormaliseAxis \/ NormaliseBtn]_vars

\* The poll loop alone: the caller only calls next_event.
Next == PopQueued \/ PullRaw \/ PollEmpty

Spec == Init /\ [][Next]_vars

\* The whole facade: the caller also counts, inserts events and updates the state.
PullRawCaller == rawCount < MaxCallerRaw /\ PullRaw

SpecCaller ==
    Init /\ [][PopQueued \/ PullRawCaller \/ PollEmpty \/ Inc \/ InsertEvent \/ Update]_vars

\* The cached state kept by hand: the caller polls and calls update itself.
PullRawState == rawCount < MaxStateRaw /\ PullRaw

SpecState == Init /\ [][PopQueued \/ PullRawState \/ PollEmpty \/ Update]_vars

\* A run in which devices are only plugged and unplugged
PullHotplug ==
    /\ rawCount < MaxCallerRaw
    /\ events = <<>>
    /\ \E b \in {a \in BackendAnswers : a.raw.type \in {"Connected", "Disconnected"}} :
          PullAnswer(b)

\* A run in which devices are unplugged and plugged in again
PullReplug ==
    /\ rawCount < MaxStateRaw
    /\ events = <<>>
    /\ \E b \in {a \in BackendAnswers : a.raw.type \in {"Connected", "Disconnected"}} :
          PullAnswer(b)

\* The messages of a device: devices come and go, the caller sets the listener
\* position and the scheduler receives what was sent.
SpecOrder == Init /\ [][PullReplug \/ SetListenerPositionCall \/ Receive]_vars

\* Force feedback: the caller polls and sets the listener position while the
\* worker drives the motors.
SpecFf ==
    Init /\ [][PullHotplug \/ PollEmpty \/ SetFfState \/ SetListenerPositionCall]_vars

\* Construction: build() with any thresholds on any platform, and then the
\* poll loop of the instance it made.
SpecBuild == InitBuilder /\ [][Build \/ PopQueued \/ PullRawCaller \/ PollEmpty]_vars

\* Effect ids: the caller polls and asks for ids.
SpecFfIds == Init /\ [][PullHotplug \/ PollEmpty \/ NextFfId]_vars

\* The counter: the caller polls, counts and resets.
SpecCounter ==
    Init /\ [][PopQueued \/ PullRawCaller \/ PollEmpty \/ IncAgain \/ ResetCounter]_vars

\* A scheduler that may end: devices are plugged and unplugged, the caller polls,
\* updates the state and sets the listener position while the worker drives the
\* motors.
SpecClosed ==
    Init /\ [][PullHotplug \/ PollEmpty \/ Update \/ SetFfState
                  \/ SetListenerPositionCall]_vars

\* Going through the gamepads: the caller polls and iterates.
SpecIter == Init /\ [][PopQueued \/ PullRawState \/ PollEmpty \/ GamepadsCall]_vars

\* Reading the cached state: the caller polls, updates and reads.
SpecRead ==
    Init /\ [][PopQueued \/ PullRawCaller \/ PollEmpty \/ Update \/ ReadCall]_vars

\* The scheduler: devices are plugged and unplugged, the caller polls and
\* creates effects, the worker receives the messages and ticks.
SpecSched == Init /\ [][PullHotplug \/ CreateEffect \/ Receive \/ Tick]_vars

\* Polling to the end: the caller calls next_event again and again; a call
\* that has begun goes on, and the backend hands over the raw events it has.
SpecPoll ==
    /\ Init
    /\ [][PopQueued \/ PullRawCaller \/ PollEmpty]_vars
    /\ WF_vars(PopQueued \/ PullRawCaller \/ PollEmpty)

\* ------------------------------------------------------------- properties
\* A step in which next_event_priv pulled a raw event from the backend
IsPull == rawCount' = rawCount + 1
\* A step in which next_event_priv handed out an event (popped or translated)
IsIteration == rawCount' # rawCount \/ Len(events') < Len(events)
\* The slot, before the step, of the device the step's raw event is about
PulledSlot == gamepad(gamepads_data, pulled'.id)
\* What the mapping of that slot resolves the raw event's code to
PulledMapped == axis_or_btn_name(PulledSlot, pulled'.code)
IsChanged(ev, b, code) ==
    ev.event.type = "ButtonChanged" /\ ev.event.elem = b /\ ev.event.code = code

\* C1: events leave the pipeline in the order they were generated. While the
\* queue holds an event, an iteration of next_event hands out the head of the
\* queue, leaves the rest queued in order and pulls no raw event (with the
\* filters disabled the head is what next_event returns); a raw event is pulled
\* only with an empty queue, its primary event is handed out in that step and
\* the events it generated behind it are all that is queued afterwards.
C1_Fifo ==
    [][/\ (events # <<>> /\ IsIteration) =>
            /\ rawCount' = rawCount
            /\ out' = Head(events)
            /\ events' = Tail(events)
            /\ (~default_filters => ret' = Head(events))
       /\ IsPull =>
            /\ events = <<>>
            /\ out'.id = pulled'.id /\ out'.time = pulled'.time
            /\ out'.event.type # "Dropped"
            /\ Len(events') <= 1
            /\ \A k \in 1 .. Len(events') :
                  /\ events'[k].id = pulled'.id /\ events'[k].time = pulled'.time
                  /\ events'[k].event.type = "ButtonChanged"
                  /\ out'.event.type \in {"ButtonPressed", "ButtonReleased"}]_vars

\* C1 witness: an inserted event was handed out while a later inserted event,
\* a different one, is still queued.
C1_Witness ==
    /\ out # None /\ out.time = 0 /\ pulled = NoRaw
    /\ events # <<>> /\ events[1] # out

\* C2: a raw ButtonPressed / ButtonReleased on a code mapped to Button b is
\* translated into ButtonPressed / ButtonReleased(b, code), handed out first,
\* and ButtonChanged(b, 1.0 / 0.0, code), the only event queued behind it, both
\* with the raw event's id and time.
C2_ButtonToBtn ==
    [][(/\ IsPull
        /\ pulled'.type \in {"ButtonPressed", "ButtonReleased"}
        /\ PulledMapped.kind = "Btn") =>
          LET b == PulledMapped.elem
              code == pulled'.code
              pressed == pulled'.type = "ButtonPressed"
          IN /\ out' = Event(pulled'.id,
                             IF pressed THEN ButtonPressed(b, code)
                                        ELSE ButtonReleased(b, code),
                             pulled'.time)
             /\ events' = <<Event(pulled'.id,
                                  ButtonChanged(b, IF pressed THEN One ELSE 0, code),
                                  pulled'.time)>>
             /\ (~default_filters => ret' = out')]_vars

\* C2 witness: ButtonPressed(South, B1) was handed out for a raw press of B1 and
\* ButtonChanged(South, 1.0, B1) waits in the queue.
C2_Witness ==
    /\ pulled # NoRaw /\ pulled.type = "ButtonPressed" /\ pulled.code = "B1"
    /\ out = Event(pulled.id, ButtonPressed("South", "B1"), pulled.time)
    /\ events = <<Event(pulled.id, ButtonChanged("South", One, "B1"), pulled.time)>>

\* C3: a raw axis sample on a code mapped to Button b, v its btn_value: with
\* v >= axis_to_btn_pressed and the cached state not pressed, ButtonPressed is
\* handed out and ButtonChanged(v) queued; with v <= axis_to_btn_released and
\* the cached state pressed, ButtonReleased is handed out and ButtonChanged(v)
\* queued; in every other case ButtonChanged(v) alone is handed out.
C3_AxisToBtn ==
    [][(/\ IsPull
        /\ pulled'.type = "AxisValueChanged"
        /\ PulledMapped.kind = "Btn") =>
          LET b == PulledMapped.elem
              code == pulled'.code
              v == btn_value(AxisInfoOf(code), pulled'.val)
              was_pressed == state_is_pressed(PulledSlot.state, code)
              changed == Event(pulled'.id, ButtonChanged(b, v, code), pulled'.time)
          IN CASE v >= axis_to_btn_pressed /\ ~was_pressed ->
                    /\ out' = Event(pulled'.id, ButtonPressed(b, code), pulled'.time)
                    /\ events' = <<changed>>
               [] v <= axis_to_btn_released /\ was_pressed ->
                    /\ out' = Event(pulled'.id, ButtonReleased(b, code), pulled'.time)
                    /\ events' = <<changed>>
               [] OTHER ->
                    /\ out' = changed
                    /\ events' = <<>>]_vars

\* C3 witness: a sample at the released threshold (13/20 = 0.65) on a pressed
\* A1 gave ButtonReleased with ButtonChanged(0.65) queued behind it.
C3_Witness ==
    /\ pulled # NoRaw /\ pulled.type = "AxisValueChanged" /\ pulled.val = 13
    /\ out # None /\ out.event.type = "ButtonReleased" /\ out.event.code = "A1"
    /\ Len(events) = 1 /\ IsChanged(events[1], "LeftTrigger2", "A1")
    /\ events[1].event.value = axis_to_btn_released

\* What C4 says of one step that pulls a sample of an axis mapped to a button:
\* a press is returned exactly when the sample is at or above the pressed
\* threshold and the last press or release returned for the code since the
\* device connected was not a press, a release exactly when the sample is at or
\* below the released threshold and the last one was a press.
Alternates ==
    (/\ IsPull
     /\ pulled'.type = "AxisValueChanged"
     /\ PulledMapped.kind = "Btn") =>
       LET code == pulled'.code
           v == btn_value(AxisInfoOf(code), pulled'.val)
           last == last_pr[pulled'.id][code]
           returns(type) ==
               /\ pc' = "idle" /\ ret' # None
               /\ ret'.event.type = type /\ ret'.event.code = code
               /\ ret'.id = pulled'.id
       IN /\ returns("ButtonPressed") <=> (v >= axis_to_btn_pressed /\ last # "pressed")
          /\ returns("ButtonReleased") <=> (v <= axis_to_btn_released /\ last = "pressed")

\* C4 as stated: the returned ButtonPressed and ButtonReleased of an axis mapped
\* to a button strictly alternate within one connection, starting with
\* ButtonPressed, in every configuration.
C4_AlternatesAlways == [][Alternates]_vars

\* C4, amended: the same with automatic state update enabled.
C4_Hysteresis == [][update_state => Alternates]_vars

\* C4 witness: with automatic state update, ButtonReleased was returned for A1
\* after a ButtonPressed of the same connection.
C4_Witness ==
    /\ update_state
    /\ pulled # NoRaw /\ pulled.type = "AxisValueChanged" /\ pulled.code = "A1"
    /\ ret # None /\ ret.event.type = "ButtonReleased" /\ ret.event.code = "A1"
    /\ rawCount >= 2

\* C5: no call of next_event returns an event of kind Dropped, in any
\* configuration and whatever was inserted in the queue.
C5_NeverDropped == ret = None \/ ~is_dropped(ret)

\* C6: for every event next_event returns, gamepad(ev.id) is a handle: the id
\* of a returned event always has a slot.
C6_HandleExists == ret = None \/ gamepad(gamepads_data, ret.id) # None

\* Every button of the slot reads not pressed, every axis 0, and button_data
\* and axis_data find nothing.
ReadsFresh(slot) ==
    \A c \in Codes :
        /\ ~state_is_pressed(slot.state, c)
        /\ state_value(slot.state, c) = 0
        /\ state_button_data(slot.state, c) = NoData
        /\ state_axis_data(slot.state, c) = NoData

\* C7: a raw Connected for id rebuilds the slot of id from scratch: when the
\* Connected event is returned the slot holds no cached entry and the mapping
\* resolved for the device now behind id; the slot is appended when id is the
\* number of slots and replaced in place when id is smaller, and every other
\* slot is unchanged.
C7_ConnectedRebuilds ==
    [][(IsPull /\ pulled'.type = "Connected") =>
          LET id == pulled'.id
              n == Len(gamepads_data)
          IN /\ id <= n
             /\ Len(gamepads_data') = IF id = n THEN n + 1 ELSE n
             /\ pc' = "idle" /\ ret' = Event(id, Connected, pulled'.time)
             /\ ReadsFresh(gamepads_data'[id + 1])
             /\ gamepads_data'[id + 1].mapping = GamepadData_mapping(inner', id)
             /\ gamepads_data'[id + 1].id = id
             /\ \A j \in 1 .. n : j # id + 1 => gamepads_data'[j] = gamepads_data[j]]_vars

\* C7 witness: Connected was returned for an id whose slot, replaced in place,
\* held cached entries before, and reads fresh now.
C7_Witness ==
    /\ pulled # NoRaw /\ pulled.type = "Connected"
    /\ ret = Event(pulled.id, Connected, pulled.time)
    /\ replaced # None /\ replaced.state # GamepadState_new
    /\ ReadsFresh(gamepads_data[pulled.id + 1])

\* The messages a step appended to the channel
Sent == SubSeq(chan', Len(chan) + 1, Len(chan'))

\* C8 as stated: a raw Connected sends exactly one Open{id, handle} when the
\* device supports force feedback and none when it does not, before the
\* Connected event is returned.
C8_OpenWhenSupported ==
    [][(IsPull /\ pulled'.type = "Connected") =>
          LET id == pulled'.id
          IN /\ Len(chan') >= Len(chan)
             /\ chan = SubSeq(chan', 1, Len(chan))
             /\ pc' = "idle" /\ ret' = Event(id, Connected, pulled'.time)
             /\ IF is_ff_supported(inner', id)
                THEN Len(Sent) = 1 /\ Sent[1].type = "Open" /\ Sent[1].id = id
                ELSE Sent = <<>>]_vars

\* C8, amended: a raw Connected sends exactly one Open{id, handle} when the
\* device supports force feedback and ff_device() yields its handle, and no
\* message otherwise, before the Connected event is returned.
C8_OpenWhenHandle ==
    [][(IsPull /\ pulled'.type = "Connected") =>
          LET id == pulled'.id
          IN /\ Len(chan') >= Len(chan)
             /\ chan = SubSeq(chan', 1, Len(chan))
             /\ pc' = "idle" /\ ret' = Event(id, Connected, pulled'.time)
             /\ IF is_ff_supported(inner', id) /\ ff_device(inner', id) # None
                THEN Sent = <<Open(id, ff_device(inner', id))>>
                ELSE Sent = <<>>]_vars

\* C8 witness: Connected was returned for a device with force feedback and the
\* last message on the channel is its Open.
C8_Witness ==
    /\ pulled # NoRaw /\ pulled.type = "Connected"
    /\ ret = Event(pulled.id, Connected, pulled.time)
    /\ is_ff_supported(inner, pulled.id)
    /\ chan # <<>> /\ chan[Len(chan)] = Open(pulled.id, [handle |-> pulled.id])

\* C9: a raw Disconnected for id sends exactly one Close{id} and yields exactly
\* one event, Disconnected for id, returned in the step that sent the Close;
\* no slot, no queue entry and no counter is modified.
C9_DisconnectedCloses ==
    [][(IsPull /\ pulled'.type = "Disconnected") =>
          /\ chan' = Append(chan, Close(pulled'.id))
          /\ out' = Event(pulled'.id, Disconnected, pulled'.time)
          /\ pc' = "idle" /\ ret' = out'
          /\ events' = events /\ events' = <<>>
          /\ gamepads_data' = gamepads_data
          /\ counter' = counter]_vars

\* C9 witness: Disconnected was returned for a device whose slot holds cached
\* entries, and the last message on the channel is its Close.
C9_Witness ==
    /\ pulled # NoRaw /\ pulled.type = "Disconnected"
    /\ ret = Event(pulled.id, Disconnected, pulled.time)
    /\ chan # <<>> /\ chan[Len(chan)] = Close(pulled.id)
    /\ gamepads_data[pulled.id + 1].state # GamepadState_new

\* C10: the cached state of a gamepad that is not connected reads as zero: no
\* button pressed, every axis 0.
C10_DisconnectedReadsZero ==
    \A id \in Ids :
        (gamepad(gamepads_data, id) # None /\ ~is_connected(inner, id)) =>
            \A c \in Codes :
                /\ ~state_is_pressed(gamepad(gamepads_data, id).state, c)
                /\ state_value(gamepad(gamepads_data, id).state, c) = 0

\* C11: the counter stays within 0 .. 2^62 - 1 (here 0 .. CounterLast); after
\* n calls of inc since construction or the last reset_counter it reads n as
\* long as n does not pass the last value, the inc at the last value sets it to
\* 0, and reset_counter sets it to 0.
C11_Counter ==
    /\ counter \in 0 .. CounterLast
    /\ incs <= CounterLast => counter = incs
    /\ counter = incs % (CounterLast + 1)

\* C11 witness: the counter went through every value and the last inc wrapped
\* it to 0.
C11_Witness == incs = CounterLast + 1 /\ counter = 0 /\ rewound

\* The events replayed through update: every kind, for every id and one id
\* without a slot, at two values and two times.
ReplayEvents ==
    {Event(x[1], x[2], x[3]) :
        x \in (0 .. MaxGamepads)
              \X (UNION {{ButtonPressed("South", c), ButtonReleased("South", c),
                          ButtonRepeated("South", c), ButtonChanged("South", 0, c),
                          ButtonChanged("South", One, c), AxisChanged("LeftStickX", 0, c),
                          AxisChanged("LeftStickX", One, c)} : c \in {"B1", "A2"}}
                  \cup {Connected, Disconnected, Dropped})
              \X {0, rawCount + 1}}

\* C12: update is idempotent: an event applied twice with the same counter
\* leaves the slots as applying it once does.
C12_UpdateIdempotent ==
    \A ev \in ReplayEvents :
        update(update(gamepads_data, ev, counter), ev, counter)
            = update(gamepads_data, ev, counter)

\* C12 witness: an entry written since the last inc is written again by an
\* event that changes it.
C12_Witness ==
    /\ written # {}
    /\ \E ev \in ReplayEvents :
          /\ writes(gamepads_data, ev) # {}
          /\ writes(gamepads_data, ev) \subseteq written
          /\ update(gamepads_data, ev, counter) # gamepads_data

\* The cached state a caller can read for every id: that of the slot, or the
\* empty one when the id has no slot
CachedState(data) ==
    [i \in Ids |-> IF gamepad(data, i) = None THEN GamepadState_new ELSE data[i + 1].state]

\* A step of next_event in a run where every other call counts in calls
IsNextEvent == calls' = calls

\* The cached state after a step of next_event that starts from base: the
\* event the step returned applied once if apply holds
StateAfter(base, apply) ==
    IF apply /\ pc' = "idle" /\ ret' # None /\ ret'.id \in Ids
       /\ gamepad(gamepads_data', ret'.id) # None
    THEN [base EXCEPT ![ret'.id] = update_slot(base[ret'.id], ret', counter)]
    ELSE base

\* The cached state with the state of the slot a raw Connected rebuilt emptied
StateRebuilt ==
    IF IsPull /\ pulled'.type = "Connected"
    THEN [CachedState(gamepads_data) EXCEPT ![pulled'.id] = GamepadState_new]
    ELSE CachedState(gamepads_data)

\* C13 as stated: with update_state enabled the event next_event returns has
\* been applied to the cached state once when the call returns and a dropped
\* event is not applied; with update_state disabled next_event never modifies
\* the cached state.
C13_DisabledNeverModifies ==
    [][IsNextEvent =>
          CachedState(gamepads_data') =
              IF update_state THEN StateAfter(StateRebuilt, TRUE)
              ELSE CachedState(gamepads_data)]_vars

\* C13, amended: the same, except that the state of a slot rebuilt by a raw
\* Connected is emptied, whether update_state is enabled or not.
C13_AutoUpdate ==
    [][IsNextEvent =>
          CachedState(gamepads_data') = StateAfter(StateRebuilt, update_state)]_vars

\* C13 witness: with update_state disabled next_event returned Connected for a
\* slot whose state the caller had written, and the state is empty now.
C13_Witness ==
    /\ ~update_state
    /\ pulled # NoRaw /\ pulled.type = "Connected"
    /\ ret = Event(pulled.id, Connected, pulled.time)
    /\ replaced # None /\ replaced.state # GamepadState_new
    /\ gamepads_data[pulled.id + 1].state = GamepadState_new

Entries == {e \in Ids \X {"buttons", "axes"} \X Codes : gamepad(gamepads_data, e[1]) # None}
Recorded(e) == gamepads_data[e[1] + 1].state[e[2]][e[3]]

\* A step leaves in every entry it wrote the value the counter has
WritesRecordCounter ==
    \A e \in Entries' :
        (/\ Recorded(e)' # NoData
         /\ (e \in Entries => Recorded(e)' # Recorded(e))) =>
            Recorded(e)'.counter = counter'

\* C15 as stated: an entry update writes records the value of the counter; an
\* entry's recorded counter equals the counter exactly when the entry was
\* written since the last inc; and while the counter has neither wrapped nor
\* been reset no recorded counter is greater than the counter.
C15_EqualIffWritten ==
    /\ [][WritesRecordCounter]_vars
    /\ [](\A e \in Entries : Recorded(e) # NoData =>
             /\ Recorded(e).counter = counter <=> e \in written
             /\ ~rewound => Recorded(e).counter <= counter)

\* C15, amended: an entry update writes records the value of the counter;
\* while the counter has neither wrapped nor been reset, no recorded counter is
\* greater than the counter, and an entry's recorded counter equals the counter
\* exactly when the entry was written since the last inc.
C15_CounterRecorded ==
    /\ [][WritesRecordCounter]_vars
    /\ [](~rewound =>
             \A e \in Entries : Recorded(e) # NoData =>
                /\ Recorded(e).counter <= counter
                /\ Recorded(e).counter = counter <=> e \in written)

\* C15 witness: the counter has neither wrapped nor been reset, one entry was
\* written before the last inc and records a smaller counter.
C15_Witness ==
    /\ ~rewound /\ counter > 0
    /\ \E e \in Entries : Recorded(e) # NoData /\ Recorded(e).counter < counter

\* C16: the ids next_ff_id hands out are 0, 1, 2, ... in this order, none
\* twice; the call that finds the generator at its last value panics, and
\* hands out nothing.
C16_IdsSequential ==
    /\ next_id = Len(ids_out)
    /\ next_id <= UsizeLast
    /\ \A i \in 1 .. Len(ids_out) : ids_out[i] = i - 1
    /\ pc = "panicked" <=> (last_call.op = "next_ff_id" /\ last_call.result = "panic")
    /\ pc = "panicked" => next_id = UsizeLast

\* C16 witness: every id below the last value was handed out and the next
\* call panicked.
C16_Witness ==
    /\ pc = "panicked"
    /\ Len(ids_out) = UsizeLast
    /\ last_call = [op |-> "next_ff_id", id |-> UsizeLast, result |-> "panic"]

\* C19: a failing hardware write never stops the worker: whatever the upload
\* and the write of set_ff_state do, the thread that owns the devices lives on.
C19_WorkerSurvives == worker.alive

\* A step in which the caller called set_listener_position
IsSetListener == calls' = calls + 1 /\ last_call'.op = "set_listener_position"

\* What no call of set_listener_position changes
ListenerLeaves ==
    UNCHANGED <<inner, gamepads_data, events, counter, next_id, worker, pc, ret,
                thresholds, default_filters, update_state>>

ThresholdsInRange(pressed, released) ==
    /\ pressed # NaN /\ released # NaN
    /\ 0 <= released /\ released < pressed /\ pressed <= One

\* C17: build() fails with InvalidAxisToBtn exactly when the thresholds are
\* not two numbers with 0 <= released < pressed <= 1, and then makes no
\* instance; otherwise the threshold check passes and the instance, if the
\* platform gives one, uses exactly these thresholds.
C17_ThresholdsChecked ==
    built # "none" =>
        LET ok == ThresholdsInRange(builder.axis_to_btn_pressed,
                                    builder.axis_to_btn_released)
        IN /\ built = "InvalidAxisToBtn" <=> ~ok
           /\ built = "InvalidAxisToBtn" => pc = "failed"
           /\ (ok /\ pc # "failed") =>
                 thresholds = [pressed |-> builder.axis_to_btn_pressed,
                               released |-> builder.axis_to_btn_released]

\* C18: with thresholds in range, build() on an unsupported platform makes a
\* complete instance (counter 0, empty queue, effect ids starting at 0, no
\* slots) and returns it inside NotImplemented; only a platform error of kind
\* Other makes no instance.
C18_DummyInstance ==
    [][(pc = "builder" /\ ThresholdsInRange(builder.axis_to_btn_pressed,
                                           builder.axis_to_btn_released)) =>
          IF builder.platform.kind = "Other"
          THEN built' = "Other" /\ pc' = "failed"
          ELSE /\ built' = builder.platform.kind
               /\ pc' = "idle"
               /\ counter' = 0 /\ events' = <<>> /\ next_id' = 0
               /\ inner' = builder.platform.inner
               /\ default_filters' = builder.default_filters
               /\ update_state' = builder.update_state
               /\ Len(gamepads_data') = Len(builder.platform.inner)]_vars

\* C18 witness: build() returned NotImplemented and the instance inside it
\* has been polled.
C18_Witness ==
    /\ built = "NotImplemented"
    /\ pc = "idle"
    /\ counter = 0 /\ events = <<>> /\ next_id = 0 /\ gamepads_data = <<>>
    /\ out = None /\ ret = None

\* A step in which the caller called update
IsUpdate == calls' = calls + 1 /\ last_call'.op = "update"

\* C21: once the receiving end of the channel is gone, next_event still
\* translates and returns Connected and Disconnected (the slot is rebuilt, the
\* failed Open or Close leaves the channel as it was and nothing panics),
\* update still applies its event to the cached state, and
\* set_listener_position on a connected device with force feedback returns
\* the error of the failed send.
C21_SchedulerGone ==
    [][~worker.alive =>
          /\ (IsPull /\ pulled'.type \in {"Connected", "Disconnected"}) =>
                /\ pc' = "idle"
                /\ ret' = Event(pulled'.id,
                                IF pulled'.type = "Connected" THEN Connected
                                ELSE Disconnected,
                                pulled'.time)
                /\ chan' = chan
                /\ pulled'.type = "Connected" =>
                      gamepad(gamepads_data', pulled'.id)
                          = GamepadData_new(inner', pulled'.id, None)
          /\ IsUpdate =>
                /\ pc' = "idle"
                /\ \E ev \in UpdatableEvents :
                      gamepads_data' = update(gamepads_data, ev, counter)
          /\ (IsSetListener /\ is_connected(inner, last_call'.id)
                /\ is_ff_supported(inner, last_call'.id)) =>
                /\ last_call'.result = "SendFailed"
                /\ chan' = chan]_vars

\* C21 witness: after the worker ended, next_event returned Connected for a
\* new device whose Open never reached the channel, and set_listener_position
\* on it returned the error of the send.
C21_Witness ==
    /\ ~worker.alive
    /\ pulled # NoRaw /\ pulled.type = "Connected"
    /\ ret = Event(pulled.id, Connected, pulled.time)
    /\ GamepadData_sends(inner, pulled.id) # <<>>
    /\ pulled.id \notin OpenedDevices
    /\ last_call.op = "set_listener_position" /\ last_call.id = pulled.id
    /\ last_call.result = "SendFailed"

\* A step in which the caller read the cached state through a handle
IsRead ==
    /\ calls' = calls + 1
    /\ last_call'.op \in {"is_pressed", "value", "button_data", "axis_data"}

\* C22 as stated: each of is_pressed, value, button_data and axis_data called
\* with the Unknown element panics instead of returning a result.
C22_UnknownPanics ==
    [][(IsRead /\ last_call'.elem = "Unknown") =>
          (pc' = "panicked" /\ last_call'.result = "panic")]_vars

\* C22, amended: is_pressed and value called with the Unknown element panic;
\* button_data and axis_data called with it do not panic and return None, as
\* no code is mapped to Unknown.
C22_UnknownAsserted ==
    [][(IsRead /\ last_call'.elem = "Unknown") =>
          IF last_call'.op \in {"is_pressed", "value"}
          THEN pc' = "panicked" /\ last_call'.result = "panic"
          ELSE /\ pc' = "idle"
               /\ last_call'.result = "Ok"
               /\ last_call'.value = NoData]_vars

\* C22 witness: is_pressed was called with Button::Unknown and panicked.
C22_Witness ==
    /\ pc = "panicked"
    /\ last_call.op = "is_pressed" /\ last_call.elem = "Unknown"
    /\ last_call.result = "panic"

\* The entry of the cached state a read of the slot looks at: its kind and its
\* code, NoCode when the element has no code
ReadEntry(slot, op, elem) ==
    CASE op = "is_pressed" ->
            <<"buttons", IF button_code(slot, elem) # NoCode
                         THEN button_code(slot, elem) ELSE to_nec(elem)>>
      [] op = "button_data" -> <<"buttons", button_code(slot, elem)>>
      [] OTHER -> <<"axes", axis_code(slot, elem)>>

\* What a read returns for an entry that was never written
ReadDefault(op) ==
    CASE op = "is_pressed" -> FALSE
      [] op = "value" -> 0
      [] OTHER -> NoData

\* C23: is_pressed, value, button_data and axis_data change neither the cached
\* state, the queue, the counter nor the channel, and for a button or axis
\* whose code update has not written since the slot was built they return
\* false, 0.0, None and None.
C23_PureLookups ==
    [][IsRead =>
          /\ UNCHANGED <<gamepads_data, events, counter, chan, inner, rawCount,
                         ret, next_id, worker, thresholds>>
          /\ last_call'.result = "Ok" =>
                LET id == last_call'.id
                    e == ReadEntry(gamepad(gamepads_data, id), last_call'.op,
                                   last_call'.elem)
                IN <<id, e[1], e[2]>> \notin written =>
                      last_call'.value = ReadDefault(last_call'.op)]_vars

\* C23 witness: button_data was read for a button that has a code while another
\* entry of the state had been written, and returned None.
C23_Witness ==
    /\ last_call.op = "button_data" /\ last_call.result = "Ok"
    /\ last_call.value = NoData
    /\ button_code(gamepad(gamepads_data, last_call.id), last_call.elem) # NoCode
    /\ written # {}
    /\ pc = "idle"

\* What the handle of a slot whose device has no usable mapping shows
Degraded(in, slot) ==
    /\ slot.mapping = DefaultMapping
    /\ map_name(slot) = None
    /\ name(in, slot) = os_name(in, slot.id)
    /\ mapping_source(slot) # "SdlMappings"

\* Whether the database has no entry for the device of id, or one that does
\* not parse
MappingFails(in, id) ==
    \/ db_get(in[id + 1].model.uuid) = None
    \/ ~parse_sdl_mapping(db_get(in[id + 1].model.uuid)).ok

\* C24: a device whose UUID has no entry in the mapping database, or an entry
\* that fails to parse, still gets its slot, with the default mapping: the
\* Connected event is returned, map_name() is None, name() is the name the OS
\* reports and mapping_source() is not SdlMappings; the slots of the other
\* devices stay as they are.
C24_MappingFailure ==
    /\ [](\A id \in Ids :
            (gamepad(gamepads_data, id) # None /\ MappingFails(inner, id)) =>
                Degraded(inner, gamepad(gamepads_data, id)))
    /\ [][(IsPull /\ pulled'.type = "Connected" /\ MappingFails(inner', pulled'.id)) =>
             /\ ret' = Event(pulled'.id, Connected, pulled'.time)
             /\ pc' = "idle"
             /\ gamepad(gamepads_data', pulled'.id) # None
             /\ Degraded(inner', gamepad(gamepads_data', pulled'.id))
             /\ \A j \in Ids \ {pulled'.id} :
                   gamepad(gamepads_data', j) = gamepad(gamepads_data, j)]_vars

\* C24 witness: Connected was returned for a device whose entry in the
\* database does not parse, next to a device that uses its SDL mapping.
C24_Witness ==
    /\ pulled # NoRaw /\ pulled.type = "Connected"
    /\ ret = Event(pulled.id, Connected, pulled.time)
    /\ db_get(inner[pulled.id + 1].model.uuid) # None
    /\ MappingFails(inner, pulled.id)
    /\ \E j \in Ids \ {pulled.id} :
          /\ gamepad(gamepads_data, j) # None
          /\ mapping_source(gamepad(gamepads_data, j)) = "SdlMappings"

\* Whether r is, in hundredths, the point of [lo, hi] that v of [min, max] maps
\* to linearly, or the end of [lo, hi] on the side where v lies outside
LinearOnto(info, v, lo, hi, r) ==
    LET range == info.max - info.min
    IN IF v <= info.min THEN r = lo
       ELSE IF v >= info.max THEN r = hi
       ELSE /\ (r - lo) * range <= (v - info.min) * (hi - lo)
            /\ (v - info.min) * (hi - lo) < (r - lo + 1) * range

\* C25: for every AxisInfo with min < max and every raw value, axis_value
\* returns the point of [-1, 1] that the value of [min, max] maps to linearly
\* (negated for LeftStickY and RightStickY, the Y axis of the model's platform
\* being reversed), btn_value the point of [0, 1], and a value outside
\* [min, max] gives the nearer end.
C25_Normalisation ==
    (last_call.op \in {"axis_value", "btn_value"}
        /\ last_call.info.min < last_call.info.max) =>
       /\ last_call.result = "Ok"
       /\ IF last_call.op = "btn_value"
          THEN LinearOnto(last_call.info, last_call.val, 0, One, last_call.value)
          ELSE LinearOnto(last_call.info, last_call.val, 0 - One, One,
                          IF last_call.axis \in {"LeftStickY", "RightStickY"}
                          THEN 0 - last_call.value ELSE last_call.value)

\* A step in which next_event, with the default filters, pulled raw value v of
\* an unmapped axis with min = 0, max = 255 and deadzone = 8
IsWidePull(v) ==
    /\ IsPull /\ pulled'.type = "AxisValueChanged" /\ pulled'.val = v
    /\ default_filters
    /\ axis_info(inner[pulled'.id + 1].model, pulled'.code) = WideAxisInfo
    /\ PulledMapped = Unmapped

\* The AxisChanged event of the step's raw event with value v
WideChanged(v) == Event(pulled'.id, AxisChanged("Unknown", v, pulled'.code), pulled'.time)

\* C26 as stated: raw value 4 normalizes to exactly 0.0 and next_event returns
\* no event for it; raw value 200 normalizes to about 0.57 and is returned as
\* AxisChanged.
C26_DeadzoneAbsorbs ==
    [][/\ IsWidePull(4) =>
             (out'.event.value = 0 /\ pc' = "loop" /\ ret' = ret)
       /\ IsWidePull(200) =>
             (out'.event.value \in 56 .. 57 /\ out' = WideChanged(out'.event.value)
                /\ (pc' = "idle" => ret' = out'))]_vars

\* C26, amended: raw value 4 normalizes to about -0.97, which is outside the
\* deadzone of 8 / 255 * 2, about 0.06, and is returned as AxisChanged; raw
\* value 200 normalizes to about 0.57 and is returned as AxisChanged. Either
\* event is returned unless the cached value of the axis is the same already.
C26_DeadzoneScenario ==
    [][\A v \in {4, 200} :
          IsWidePull(v) =>
             LET n == IF v = 4 THEN 0 - 97 ELSE 56
                 cached == state_axis_data(PulledSlot.state, pulled'.code)
             IN /\ AxisInfo_deadzone(WideAxisInfo) = 6
                /\ out' = WideChanged(n)
                /\ IF cached # NoData /\ cached.value = n
                   THEN pc' = "loop" /\ ret' = ret
                   ELSE pc' = "idle" /\ ret' = out']_vars

\* C26 witness: next_event returned AxisChanged(Unknown, -0.97) for raw value
\* 4 of such an axis.
C26_Witness ==
    /\ pulled # NoRaw /\ pulled.type = "AxisValueChanged" /\ pulled.val = 4
    /\ default_filters
    /\ axis_info(inner[pulled.id + 1].model, pulled.code) = WideAxisInfo
    /\ ret = Event(pulled.id, AxisChanged("Unknown", 0 - 97, pulled.code), pulled.time)
    /\ pc = "idle"

\* A step in which the worker ticked, and one in which it processed a message
IsTick == worker'.pos = worker.pos /\ worker' # worker
IsReceive == worker'.pos = worker.pos + 1

\* The devices the scheduler holds a handle of
OpenIds(w) == {i \in Ids : w.devices[i] # None}

\* The sum of the strong (or weak) magnitudes of a set of effects
RECURSIVE SumOf(_, _)
SumOf(effects, motor) ==
    IF effects = {} THEN 0
    ELSE LET e == CHOOSE x \in effects : TRUE
         IN (IF motor = "strong" THEN e.magnitude.strong ELSE e.magnitude.weak)
                + SumOf(effects \ {e}, motor)

C28_ClosedIsInert ==
    /\ [](\A e \in worker.effects : worker.devices[e.id] # None)
    /\ [][IsReceive =>
             LET msg == chan[worker.pos + 1]
             IN /\ msg.type = "Close" => worker'.devices[msg.id] = None
                /\ (msg.type # "Open" /\ worker.devices[msg.id] = None) =>
                      worker' = [worker EXCEPT !.pos = worker.pos + 1]
                /\ msg.type = "Open" =>
                      /\ worker'.devices[msg.id] # None
                      /\ worker'.devices[msg.id].handle = msg.device
                      /\ \A e \in worker'.effects : e.id # msg.id]_vars
    /\ [][IsTick =>
             \A k \in 1 .. Len(worker'.cmds) :
                 worker.devices[worker'.cmds[k].id] # None]_vars

\* C28 witness: after Close(id) the scheduler processed the Create of an
\* effect for id, and holds neither a handle nor an effect for id.
C28_Witness ==
    /\ worker.pos >= 2
    /\ chan[worker.pos].type = "Create"
    /\ \E j \in 1 .. (worker.pos - 1) :
          /\ chan[j] = Close(chan[worker.pos].id)
          /\ \A i \in (j + 1) .. worker.pos : chan[i].type # "Open"
    /\ worker.devices[chan[worker.pos].id] = None
    /\ \A e \in worker.effects : e.id # chan[worker.pos].id

C29_PollTerminates ==
    /\ [][IsNextEvent =>
             ((pc' = "idle" /\ ret' = None)
                 <=> (events = <<>> /\ rawCount' = rawCount))]_vars
    /\ (pc = "loop" ~> pc = "idle")
    /\ []<>(pc = "idle" /\ ret = None)

\* C29 witness: after the backend handed over its raw events, next_event found
\* the queue empty and returned None.
C29_Witness ==
    /\ pc = "idle" /\ ret = None /\ out = None
    /\ events = <<>>
    /\ rawCount = MaxCallerRaw
    /\ pulled = NoRaw

\* C30: a raw ButtonPressed / ButtonReleased on a code mapped to Axis a is
\* translated into AxisChanged(a, 1.0 / 0.0, code) with the raw event's id and
\* time and nothing else: no button event is handed out and nothing is queued.
C30_ButtonToAxis ==
    [][(/\ IsPull
        /\ pulled'.type \in {"ButtonPressed", "ButtonReleased"}
        /\ PulledMapped.kind = "Axis") =>
          LET a == PulledMapped.elem
              v == IF pulled'.type = "ButtonPressed" THEN One ELSE 0
          IN /\ out' = Event(pulled'.id, AxisChanged(a, v, pulled'.code), pulled'.time)
             /\ events' = <<>>
             /\ (pc' = "idle" => ret' = out')
             /\ (~default_filters => pc' = "idle")]_vars

\* C30 witness: AxisChanged(LeftZ, 0.0, B2) was returned for a raw release of
\* B2 and the queue is empty.
C30_Witness ==
    /\ pulled # NoRaw /\ pulled.type = "ButtonReleased" /\ pulled.code = "B2"
    /\ ret = Event(pulled.id, AxisChanged("LeftZ", 0, "B2"), pulled.time)
    /\ out = ret /\ pc = "idle"
    /\ events = <<>>

\* C31: a raw event on a code the active mapping does not cover is reported
\* with the Unknown element and its own code: a press or release is handed out
\* as ButtonPressed / ButtonReleased(Unknown, code) with
\* ButtonChanged(Unknown, 1.0 / 0.0, code) the only event queued behind it, an
\* axis sample as AxisChanged(Unknown, axis_value(sample), code) alone; and
\* every raw event pulled is handed out by translation as an event of its id
\* and time that is not Dropped.
C31_UnmappedUnknown ==
    [][IsPull =>
         /\ out' # None /\ out'.id = pulled'.id /\ out'.time = pulled'.time
         /\ out'.event.type # "Dropped"
         /\ (/\ pulled'.type \in {"ButtonPressed", "ButtonReleased"}
             /\ PulledMapped = Unmapped) =>
               LET code == pulled'.code
                   pressed == pulled'.type = "ButtonPressed"
               IN /\ out'.event = IF pressed THEN ButtonPressed("Unknown", code)
                                             ELSE ButtonReleased("Unknown", code)
                  /\ events' = <<Event(pulled'.id,
                                       ButtonChanged("Unknown",
                                                     IF pressed THEN One ELSE 0, code),
                                       pulled'.time)>>
         /\ (pulled'.type = "AxisValueChanged" /\ PulledMapped = Unmapped) =>
               LET info == axis_info(inner[pulled'.id + 1].model, pulled'.code)
               IN /\ out'.event = AxisChanged("Unknown",
                                              axis_value(info, pulled'.val, "Unknown"),
                                              pulled'.code)
                  /\ events' = <<>>]_vars

\* C31 witness: a raw release of a code the default mapping does not cover was
\* handed out as ButtonReleased(Unknown, code) and ButtonChanged(Unknown, 0.0,
\* code) waits in the queue.
C31_Witness ==
    /\ pulled # NoRaw /\ pulled.type = "ButtonReleased"
    /\ gamepad(gamepads_data, pulled.id).mapping.default
    /\ out = Event(pulled.id, ButtonReleased("Unknown", pulled.code), pulled.time)
    /\ events = <<Event(pulled.id, ButtonChanged("Unknown", 0, pulled.code), pulled.time)>>

\* A step in which the caller inserted an event
IsInsert == calls' = calls + 1 /\ events' # events

\* C32: insert_event appends the event at the end of the internal queue and
\* touches nothing that was queued; next_event hands out the head of the queue
\* and leaves the rest queued in order, and it pulls a raw event from the
\* backend only when the queue is empty. An inserted event therefore leaves
\* after every event queued before it, before any raw event not yet pulled,
\* and inserted events leave in the order they were inserted.
C32_InsertAppends ==
    [][/\ IsInsert =>
            /\ Len(events') = Len(events) + 1
            /\ SubSeq(events', 1, Len(events)) = events
            /\ events'[Len(events')] \in InsertableEvents
            /\ rawCount' = rawCount /\ out' = out /\ ret' = ret
       /\ (events # <<>> /\ IsIteration) =>
            /\ out' = Head(events)
            /\ events' = Tail(events)
            /\ rawCount' = rawCount
       /\ IsPull => events = <<>>]_vars

\* C32 witness: an event was inserted behind the ButtonChanged a raw press had
\* queued; next_event handed out the ButtonChanged, the inserted event is what
\* is queued, and no further raw event was pulled.
C32_Witness ==
    /\ pulled = NoRaw /\ rawCount = 1
    /\ out # None /\ out.event.type = "ButtonChanged" /\ out.time = 1
    /\ Len(events) = 1 /\ events[1] \in InsertableEvents

\* A step in which the caller went through gamepads()
IsGamepads == calls' = calls + 1 /\ last_call'.op = "gamepads"

\* C33: the iterator of gamepads() yields exactly the ids that have a slot and
\* whose device is connected, in strictly increasing order (so each once), each
\* paired with the handle of that id, and it stops at last_gamepad_hint(); an
\* id whose device is disconnected or that has no slot is not yielded.
C33_GamepadsIterator ==
    [][IsGamepads =>
         LET items == last_call'.items
             live == {i \in Ids : gamepad(gamepads_data, i) # None /\ is_connected(inner, i)}
         IN /\ {items[k][1] : k \in 1 .. Len(items)} = live
            /\ Len(items) = Cardinality(live)
            /\ \A k \in 1 .. (Len(items) - 1) : items[k][1] < items[k + 1][1]
            /\ \A k \in 1 .. Len(items) :
                  /\ items[k][2].data = gamepads_data[items[k][1] + 1]
                  /\ items[k][2].data.id = items[k][1]
                  /\ items[k][2].inner = inner[items[k][1] + 1]
                  /\ items[k][2].inner.connected
            /\ last_call'.idx = last_gamepad_hint(inner)]_vars

\* C33 witness: with device 0 disconnected and device 1 connected, the iterator
\* yielded device 1 alone.
C33_Witness ==
    /\ last_call.op = "gamepads"
    /\ Len(inner) = 2 /\ ~inner[1].connected /\ inner[2].connected
    /\ Len(last_call.items) = 1 /\ last_call.items[1][1] = 1

\* The last message among the first j - 1 of the channel that is about device
\* id and of one of the types, as its index; 0 if there is none
LastOf(id, j, types) ==
    LET found == {k \in 1 .. (j - 1) : chan[k].id = id /\ chan[k].type \in types}
    IN IF found = {} THEN 0 ELSE CHOOSE k \in found : \A l \in found : l <= k

C35_StrictAlternation ==
    \A j \in 1 .. Len(chan) :
        LET m == chan[j]
            opened == LastOf(m.id, j, {"Open"})
            closed == LastOf(m.id, j, {"Close"})
        IN /\ m.type = "Open" => opened <= closed
           /\ m.type = "Close" => opened > closed

\* C35, amended: no second Open is sent for an id without a Close in between,
\* and the Close of a device that supports force feedback and has a handle
\* follows the Open of its connection; a Close is sent on every Disconnected,
\* so the Close of a device that was never opened has no Open before it.
C35_OpenCloseOrder ==
    \A j \in 1 .. Len(chan) :
        LET m == chan[j]
            opened == LastOf(m.id, j, {"Open"})
            closed == LastOf(m.id, j, {"Close"})
            handle == inner[m.id + 1].model.ff /\ inner[m.id + 1].ff_ok
        IN /\ m.type = "Open" => (handle /\ opened <= closed)
           /\ m.type = "Close" => (opened > closed <=> handle)

\* C35 witness: a device with a handle was unplugged and plugged in again, and
\* the facade sent Open, Close and Open for it, in that order.
C35_Witness ==
    /\ Len(chan) = 3 /\ \A j \in 1 .. 3 : chan[j].id = 0
    /\ chan[1].type = "Open" /\ chan[2].type = "Close" /\ chan[3].type = "Open"
    /\ inner[1].connected

\* C36: the backend is polled only when the internal queue is empty: a step
\* that pulls a raw event starts with an empty queue, so what is queued
\* afterwards comes from that raw event alone; and without insert_event the
\* queue never holds more than one event, which is the ButtonChanged of the raw
\* event pulled last.
C36_PolledWhenEmpty ==
    /\ [](/\ Len(events) <= 1
          /\ events # <<>> =>
                /\ pulled # NoRaw
                /\ events[1].id = pulled.id /\ events[1].time = pulled.time
                /\ events[1].time = rawCount)
    /\ [][IsPull =>
            /\ events = <<>>
            /\ \A k \in 1 .. Len(events') : events'[k].time = pulled'.time]_vars

\* C36 witness: the second raw event was pulled after the queue had been
\* emptied, and the one event it queued is all the queue holds.
C36_Witness ==
    /\ rawCount = 2 /\ pulled # NoRaw /\ pulled.time = 2
    /\ Len(events) = 1 /\ events[1].time = 2
    /\ ret # None /\ ret.time = 2

\* A step in which the caller called update, and neither inc nor insert_event
IsUpdateCall == IsUpdate /\ incs' = incs /\ Len(events') = Len(events)

\* The entry of the cached state a button or axis event is about
EntryOf(ev) ==
    <<ev.id, IF ev.event.type = "AxisChanged" THEN "axes" ELSE "buttons", ev.event.code>>

\* C37: a call of update with event ev leaves every slot as it was when ev is
\* Connected, Disconnected or Dropped and when the id of ev has no slot; for a
\* button or axis event every entry of the cached state other than the one of
\* the event's code on the event's device stays as it was; and the counter, the
\* queue, the number of slots and every slot's mapping never change.
C37_UpdateFrame ==
    [][IsUpdateCall =>
         LET ev == last_call'.event
         IN /\ (\/ ev.event.type \in {"Connected", "Disconnected", "Dropped"}
                \/ gamepad(gamepads_data, ev.id) = None) =>
                     gamepads_data' = gamepads_data
            /\ \A e \in Entries :
                  e # EntryOf(ev) =>
                     gamepads_data'[e[1] + 1].state[e[2]][e[3]] = Recorded(e)
            /\ Len(gamepads_data') = Len(gamepads_data)
            /\ \A i \in 1 .. Len(gamepads_data) :
                  /\ gamepads_data'[i].mapping = gamepads_data[i].mapping
                  /\ gamepads_data'[i].id = gamepads_data[i].id
            /\ counter' = counter /\ events' = events]_vars

\* C37 witness: with two slots, update applied a press of code A1 on device 0,
\* which wrote that entry, and the cached state of device 1 has no entry.
C37_Witness ==
    /\ last_call.op = "update" /\ last_call.event.event.type = "ButtonPressed"
    /\ last_call.event.id = 0
    /\ Len(gamepads_data) = 2
    /\ gamepads_data[1].state.buttons["A1"] # NoData
    /\ gamepads_data[2].state = GamepadState_new

====
